---- MODULE Spec2Model ----
(***************************************************************************)
(* Model of the hayaku-engine rendering core: the RenderingServer (five    *)
(* RIDOwner registries, camera, point-light upload) and the                *)
(* RenderingDevice frame loop (drawBegin / drawEnd against a GPU queue).   *)
(***************************************************************************)
EXTENDS Integers, Sequences, FiniteSets, TLC

(* ----------------------------- bounds --------------------------------- *)

\* handles each registry may issue in SpecServer
MaxHandle == 2
\* handles the point-light registry may issue in SpecLights
MaxLights == 9
\* primitives appended to one mesh
MaxPrims == 2
\* point-light calls other than pointLightCreate in one run of SpecLights
MaxEdits == 2
\* API calls in one run of SpecServer
MaxCalls == 4
\* drawBegin calls in one run of SpecFrame
MaxCycles == 3
\* calls in a run of the mesh specification
MaxMeshCalls == 7
\* device calls in a run of the upload specification
MaxUploads == 4
\* server calls and frames in a run of the draw specification
MaxDrawCalls == 6
MaxDraws == 1
\* server calls and frames in a run of the render specification
MaxRenderCalls == 6
MaxFrames == 3
\* calls of Scene::load and Scene::clear in a run
MaxSceneCalls == 3
\* primitives of a glTF mesh
MaxMeshPrimitives == 3

(* ------------------------ program constants --------------------------- *)

FRAMES_IN_FLIGHT == 2
MAX_LIGHT_COUNT == 8
\* the literal cap in RenderingServer::_updateLights
LightLoopCap == 8
NULL_HANDLE == 0

\* values a scalar / vector / matrix argument is drawn from (0 is the
\* value-initialised default)
Vals == {0, 1}

Formats == {"R8", "L8", "RG8", "LA8", "RGB8", "RGBA8"}
NullImage == [format |-> "null", width |-> 0, height |-> 0]
Images == {NullImage} \cup {[format |-> f, width |-> 1, height |-> 1] : f \in Formats}
IndexCounts == {3, 6}

VARIABLES
    \* RenderingServer
    _meshes, _meshInstances, _pointLights, _textures, _materials,
    _camera, _whiteTexture,
    \* RenderingDevice resources
    lightBuffer,   \* contents of _lightBuffer, MAX_LIGHT_COUNT entries
    gpu,           \* live GPU objects created through the device
    \* RenderingDevice frame loop
    _frame, _imageIndex, _resized, _size, fences, cmdState, semaphores,
    pending, swapchain, window, frameLog, cpu, fatal,
    \* RenderingDevice one-shot command path
    image,         \* the image the texture upload works on
    upload,        \* staging buffers, one-shot command buffers, the queue
    \* what a frame's commands read on the GPU
    uniforms,      \* per frame slot, the contents of its uniform buffer
    bound,         \* per frame slot, the objects its command buffer binds
    \* Scene
    scene,         \* the handle vectors of the scene and its position in load / clear
    \* asset loader
    loaded,        \* _loadMesh: its position, the array it fills, what it returned
    \* observation of the API: last call, handles handed out, call counters
    ret, issued, calls, cycles

regVars == <<_meshes, _meshInstances, _pointLights, _textures, _materials>>
serverVars == <<_meshes, _meshInstances, _pointLights, _textures, _materials,
                _camera, _whiteTexture, lightBuffer, gpu, issued>>
frameVars == <<_frame, _imageIndex, _resized, _size, fences, cmdState, semaphores,
               pending, swapchain, window, frameLog, cpu, cycles>>
uploadVars == <<image, upload>>
drawVars == <<uniforms, bound>>
sceneVars == <<scene, loaded>>
vars == <<_meshes, _meshInstances, _pointLights, _textures, _materials,
          _camera, _whiteTexture, lightBuffer, gpu,
          _frame, _imageIndex, _resized, _size, fences, cmdState, semaphores,
          pending, swapchain, window, frameLog, cpu, fatal,
          image, upload, uniforms, bound, scene, loaded, ret, issued, calls, cycles>>

(* ------------------- RIDOwner<T> (rid_owner.h) ------------------------ *)
(* A registry is the insertion-ordered sequence of its (id, value) pairs  *)
(* and the last handle it generated.                                      *)

EmptyOwner == [map |-> <<>>, last |-> 0]

ids(owner) == {owner.map[i].id : i \in DOMAIN owner.map}

has(owner, id) == \E i \in DOMAIN owner.map : owner.map[i].id = id

size(owner) == Len(owner.map)

\* the handle the next insert returns
nextId(owner) == owner.last + 1

insert(owner, value) ==
    [map |-> Append(owner.map, [id |-> nextId(owner), val |-> value]),
     last |-> nextId(owner)]

remove(owner, id) == [owner EXCEPT !.map = SelectSeq(owner.map, LAMBDA e : e.id # id)]

\* precondition has(owner, id)
get(owner, id) == owner.map[CHOOSE i \in DOMAIN owner.map : owner.map[i].id = id].val

\* owner[id] = value for a live id
put(owner, id, value) ==
    [owner EXCEPT !.map = [i \in DOMAIN owner.map |->
        IF owner.map[i].id = id THEN [id |-> id, val |-> value] ELSE owner.map[i]]]

\* map(): the values in iteration order
values(owner) == [i \in DOMAIN owner.map |-> owner.map[i].val]

(* ------------------------- GPU objects -------------------------------- *)

\* the allocator / driver hands out an unused handle; the smallest one
\* stands for any of them
FreshId(S) == CHOOSE n \in 1..(Cardinality(S) + 1) :
                  n \notin S /\ \A m \in 1..(n - 1) : m \in S

bufferCreate(g) == [g EXCEPT !.buffers = @ \cup {FreshId(@)}]

bufferDestroy(g, b) ==
    [g EXCEPT !.buffers = @ \ {b}, !.badDestroy = @ \/ b \notin g.buffers]

\* staging buffer created, copied through a one-shot command buffer, destroyed
bufferSend(g) == bufferDestroy(bufferCreate(g), FreshId(g.buffers))

imageDestroy(g, i) ==
    [g EXCEPT !.images = @ \ {i}, !.badDestroy = @ \/ i \notin g.images]

imageViewDestroy(g, v) ==
    [g EXCEPT !.views = @ \ {v}, !.badDestroy = @ \/ v \notin g.views]

samplerDestroy(g, s) ==
    [g EXCEPT !.samplers = @ \ {s}, !.badDestroy = @ \/ s \notin g.samplers]

\* RenderingDevice::textureCreate: image, staging upload, view, sampler
deviceTextureCreate(g) ==
    [tex |-> [image |-> FreshId(g.images), imageView |-> FreshId(g.views),
              sampler |-> FreshId(g.samplers)],
     gpu |-> [bufferSend(g) EXCEPT !.images = @ \cup {FreshId(g.images)},
                                   !.views = @ \cup {FreshId(g.views)},
                                   !.samplers = @ \cup {FreshId(g.samplers)}]]

\* RenderingDevice::updateLightBuffer: bufferSend of `data` to offset 0
updateLightBuffer(buf, data) ==
    [i \in 1..MAX_LIGHT_COUNT |-> IF i <= Len(data) THEN data[i] ELSE buf[i]]

(* ------------------------ RenderingServer ----------------------------- *)

ZeroLight == [position |-> 0, range |-> 0, color |-> 0, intensity |-> 0]
Uninit == [position |-> -1, range |-> -1, color |-> -1, intensity |-> -1]
EmptyMesh == [primitives |-> <<>>]
EmptyInstance == [mesh |-> 0, transform |-> 0]

\* what the last call was, the handle it returned and the number of calls it
\* made into the device
Ret(op, res, dc) == [op |-> op, res |-> res, devCalls |-> dc]
\* the same for a call whose handle argument is of interest afterwards
RetArg(op, res, dc, arg) == [op |-> op, res |-> res, devCalls |-> dc, arg |-> arg]


\* variant: the loop stops one light early
RECURSIVE collectLights_stopEarly(_, _, _)
collectLights_stopEarly(vals, i, lights) ==
    IF i > Len(vals) THEN lights
    ELSE IF Len(lights) >= LightLoopCap - 1 THEN lights
    ELSE collectLights_stopEarly(vals, i + 1, Append(lights, vals[i]))

\* the loop of _updateLights: copy lights in map() order, stop at the cap
RECURSIVE collectLights(_, _, _)
collectLights(vals, i, lights) ==
    IF i > Len(vals) THEN lights
    ELSE IF Len(lights) >= LightLoopCap THEN lights
    ELSE collectLights(vals, i + 1, Append(lights, vals[i]))

\* the list _updateLights hands to updateLightBuffer
lightList(owner) ==
    IF size(owner) = 0 THEN <<ZeroLight>>
    ELSE collectLights(values(owner), 1, <<>>)

_updateLights(owner, buf) == updateLightBuffer(buf, lightList(owner))

(* Each handler below is an operator giving the values the call leaves    *)
(* behind, and an action (capitalised) that applies it.                   *)


\* variant: the counter is not advanced, every mesh gets the first handle
meshCreate_firstId ==
    [meshes |-> [map |-> Append(_meshes.map, [id |-> 1, val |-> EmptyMesh]),
                 last |-> nextId(_meshes)],
     id |-> 1]

meshCreate == [meshes |-> insert(_meshes, EmptyMesh), id |-> nextId(_meshes)]

\* variant: the primitive is put in front of the others
meshAddPrimitive_inFront(mesh, indices, material) ==
    IF ~has(_meshes, mesh) \/ ~has(_materials, material)
    THEN [meshes |-> _meshes, gpu |-> gpu, devCalls |-> 0]
    ELSE LET vb == FreshId(gpu.buffers)
             g1 == bufferSend(bufferCreate(gpu))
             ib == FreshId(g1.buffers)
             g2 == bufferSend(bufferCreate(g1))
             primitive == [vertexBuffer |-> vb, indexBuffer |-> ib,
                           indexCount |-> indices, material |-> material]
         IN [meshes |-> put(_meshes, mesh,
                  [primitives |-> <<primitive>> \o get(_meshes, mesh).primitives]),
             gpu |-> g2, devCalls |-> 4]

meshAddPrimitive(mesh, indices, material) ==
    IF ~has(_meshes, mesh) \/ ~has(_materials, material)
    THEN [meshes |-> _meshes, gpu |-> gpu, devCalls |-> 0]
    ELSE LET vb == FreshId(gpu.buffers)
             g1 == bufferSend(bufferCreate(gpu))
             ib == FreshId(g1.buffers)
             g2 == bufferSend(bufferCreate(g1))
             primitive == [vertexBuffer |-> vb, indexBuffer |-> ib,
                           indexCount |-> indices, material |-> material]
         IN [meshes |-> put(_meshes, mesh,
                  [primitives |-> Append(get(_meshes, mesh).primitives, primitive)]),
             gpu |-> g2, devCalls |-> 4]

RECURSIVE destroyPrimitives(_, _, _)
destroyPrimitives(g, prims, i) ==
    IF i > Len(prims) THEN g
    ELSE destroyPrimitives(
            bufferDestroy(bufferDestroy(g, prims[i].vertexBuffer), prims[i].indexBuffer),
            prims, i + 1)

\* variant: the index buffers are not destroyed
meshFree_keepIndexBuffers(mesh) ==
    IF ~has(_meshes, mesh)
    THEN [meshes |-> _meshes, gpu |-> gpu, devCalls |-> 0]
    ELSE [meshes |-> remove(_meshes, mesh),
          gpu |-> [gpu EXCEPT !.buffers = @ \
                      {get(_meshes, mesh).primitives[i].vertexBuffer :
                          i \in DOMAIN get(_meshes, mesh).primitives}],
          devCalls |-> 2 * Len(get(_meshes, mesh).primitives)]

meshFree(mesh) ==
    IF ~has(_meshes, mesh)
    THEN [meshes |-> _meshes, gpu |-> gpu, devCalls |-> 0]
    ELSE [meshes |-> remove(_meshes, mesh),
          gpu |-> destroyPrimitives(gpu, get(_meshes, mesh).primitives, 1),
          devCalls |-> 2 * Len(get(_meshes, mesh).primitives)]

meshInstanceCreate ==
    [instances |-> insert(_meshInstances, EmptyInstance), id |-> nextId(_meshInstances)]


\* variant: only the mesh instance handle is checked
meshInstanceSetMesh_oneCheck(meshInstance, mesh) ==
    IF ~has(_meshInstances, meshInstance)
    THEN _meshInstances
    ELSE put(_meshInstances, meshInstance,
             [get(_meshInstances, meshInstance) EXCEPT !.mesh = mesh])

meshInstanceSetMesh(meshInstance, mesh) ==
    IF ~has(_meshInstances, meshInstance) \/ ~has(_meshes, mesh)
    THEN _meshInstances
    ELSE put(_meshInstances, meshInstance,
             [get(_meshInstances, meshInstance) EXCEPT !.mesh = mesh])

meshInstanceSetTransform(meshInstance, transform) ==
    IF ~has(_meshInstances, meshInstance)
    THEN _meshInstances
    ELSE put(_meshInstances, meshInstance,
             [get(_meshInstances, meshInstance) EXCEPT !.transform = transform])


\* variant: the instance stays in the registry
meshInstanceFree_keep(meshInstance) == _meshInstances

meshInstanceFree(meshInstance) == remove(_meshInstances, meshInstance)

pointLightCreate ==
    LET lights == insert(_pointLights, ZeroLight)
    IN [lights |-> lights, buf |-> _updateLights(lights, lightBuffer),
        id |-> nextId(_pointLights)]

\* the four setters differ in the field they assign
pointLightSet(pointLight, field, value) ==
    IF ~has(_pointLights, pointLight)
    THEN [lights |-> _pointLights, buf |-> lightBuffer, devCalls |-> 0]
    ELSE LET lights == put(_pointLights, pointLight,
                           [get(_pointLights, pointLight) EXCEPT ![field] = value])
         IN [lights |-> lights, buf |-> _updateLights(lights, lightBuffer),
             devCalls |-> 1]

pointLightSetPosition(pointLight, position) ==
    pointLightSet(pointLight, "position", position)

pointLightSetRange(pointLight, range) == pointLightSet(pointLight, "range", range)

pointLightSetColor(pointLight, color) == pointLightSet(pointLight, "color", color)

pointLightSetIntensity(pointLight, intensity) ==
    pointLightSet(pointLight, "intensity", intensity)


\* variant: the light is removed without a new upload
pointLightFree_noUpload(pointLight) ==
    IF ~has(_pointLights, pointLight)
    THEN [lights |-> _pointLights, buf |-> lightBuffer, devCalls |-> 0]
    ELSE [lights |-> remove(_pointLights, pointLight), buf |-> lightBuffer,
          devCalls |-> 0]

pointLightFree(pointLight) ==
    IF ~has(_pointLights, pointLight)
    THEN [lights |-> _pointLights, buf |-> lightBuffer, devCalls |-> 0]
    ELSE LET lights == remove(_pointLights, pointLight)
         IN [lights |-> lights, buf |-> _updateLights(lights, lightBuffer),
             devCalls |-> 1]


\* variant: only the null check, no format check
textureCreate_anyFormat(pImage) ==
    IF pImage = NullImage
    THEN [textures |-> _textures, gpu |-> gpu, id |-> NULL_HANDLE, devCalls |-> 0]
    ELSE LET d == deviceTextureCreate(gpu)
         IN [textures |-> insert(_textures, d.tex), gpu |-> d.gpu,
             id |-> nextId(_textures), devCalls |-> 1]

textureCreate(pImage) ==
    IF pImage = NullImage \/ pImage.format # "RGBA8"
    THEN [textures |-> _textures, gpu |-> gpu, id |-> NULL_HANDLE, devCalls |-> 0]
    ELSE LET d == deviceTextureCreate(gpu)
         IN [textures |-> insert(_textures, d.tex), gpu |-> d.gpu,
             id |-> nextId(_textures), devCalls |-> 1]

\* variant: the sampler is not destroyed
textureFree_keepSampler(texture) ==
    IF ~has(_textures, texture)
    THEN [textures |-> _textures, gpu |-> gpu, devCalls |-> 0]
    ELSE LET t == get(_textures, texture)
         IN [textures |-> remove(_textures, texture),
             gpu |-> imageViewDestroy(imageDestroy(gpu, t.image), t.imageView),
             devCalls |-> 3]

textureFree(texture) ==
    IF ~has(_textures, texture)
    THEN [textures |-> _textures, gpu |-> gpu, devCalls |-> 0]
    ELSE LET t == get(_textures, texture)
         IN [textures |-> remove(_textures, texture),
             gpu |-> samplerDestroy(imageViewDestroy(imageDestroy(gpu, t.image),
                                                     t.imageView), t.sampler),
             devCalls |-> 3]

\* what _textures[h] yields for a handle that is not in the registry
UndefinedTextures == {[image |-> 0, imageView |-> 0, sampler |-> 0],
                      [image |-> 1, imageView |-> 1, sampler |-> 1]}

\* variant: the handle is used as given
selectedTexture_asGiven(albedoTexture) == albedoTexture

\* if (!_textures.has(albedoTexture)) albedoTexture = _whiteTexture;
selectedTexture(albedoTexture) ==
    IF ~has(_textures, albedoTexture) THEN _whiteTexture ELSE albedoTexture

materialCreate(albedoTexture, undefined) ==
    LET albedo == selectedTexture(albedoTexture)
        t == IF has(_textures, albedo) THEN get(_textures, albedo) ELSE undefined
        albedoSet == FreshId({s.id : s \in gpu.sets})
    IN [materials |-> insert(_materials, [albedoSet |-> albedoSet]),
        gpu |-> [gpu EXCEPT !.sets = @ \cup
                    {[id |-> albedoSet, imageView |-> t.imageView, sampler |-> t.sampler]}],
        id |-> nextId(_materials), devCalls |-> 4]

materialFree(material) == remove(_materials, material)

cameraSet(field, value) == [_camera EXCEPT ![field] = value]

(* ------------------------------ actions ------------------------------- *)

Running == ~fatal /\ cpu = "ready"

ServerOnly == UNCHANGED <<frameVars, fatal, uploadVars, drawVars, sceneVars>>

CameraSet(field, value) ==
    /\ Running
    /\ _camera' = cameraSet(field, value)
    /\ ret' = Ret(field, 0, 0)
    /\ UNCHANGED <<regVars, _whiteTexture, lightBuffer, gpu, issued>>
    /\ ServerOnly

CameraSetTransform(transform) == CameraSet("transform", transform)

CameraSetFovY(fovY) == CameraSet("fovY", fovY)

CameraSetZNear(zNear) == CameraSet("zNear", zNear)

CameraSetZFar(zFar) == CameraSet("zFar", zFar)

MeshCreate(cap) ==
    /\ Running /\ _meshes.last < cap
    /\ _meshes' = meshCreate.meshes
    /\ issued' = [issued EXCEPT !.mesh = @ \cup {meshCreate.id}]
    /\ ret' = Ret("meshCreate", meshCreate.id, 0)
    /\ UNCHANGED <<_meshInstances, _pointLights, _textures, _materials, _camera,
                   _whiteTexture, lightBuffer, gpu>>
    /\ ServerOnly

MeshAddPrimitive(mesh, indices, material) ==
    /\ Running
    /\ has(_meshes, mesh) => Len(get(_meshes, mesh).primitives) < MaxPrims
    /\ LET r == meshAddPrimitive(mesh, indices, material)
       IN /\ _meshes' = r.meshes
          /\ gpu' = r.gpu
          /\ ret' = Ret("meshAddPrimitive", 0, r.devCalls)
    /\ UNCHANGED <<_meshInstances, _pointLights, _textures, _materials, _camera,
                   _whiteTexture, lightBuffer, issued>>
    /\ ServerOnly

\* variant: the instances that name the mesh are removed with it
MeshFree_cascade(mesh) ==
    /\ Running
    /\ LET r == meshFree(mesh)
       IN /\ _meshes' = r.meshes
          /\ gpu' = r.gpu
          /\ ret' = Ret("meshFree", 0, r.devCalls)
    /\ _meshInstances' = [_meshInstances EXCEPT
                             !.map = SelectSeq(@, LAMBDA e : e.val.mesh # mesh)]
    /\ issued' = [issued EXCEPT !.mesh = @ \ {mesh}]
    /\ UNCHANGED <<_pointLights, _textures, _materials, _camera,
                   _whiteTexture, lightBuffer>>
    /\ ServerOnly

MeshFree(mesh) ==
    /\ Running
    /\ LET r == meshFree(mesh)
       IN /\ _meshes' = r.meshes
          /\ gpu' = r.gpu
          /\ ret' = Ret("meshFree", 0, r.devCalls)
    /\ issued' = [issued EXCEPT !.mesh = @ \ {mesh}]
    /\ UNCHANGED <<_meshInstances, _pointLights, _textures, _materials, _camera,
                   _whiteTexture, lightBuffer>>
    /\ ServerOnly

MeshInstanceCreate(cap) ==
    /\ Running /\ _meshInstances.last < cap
    /\ _meshInstances' = meshInstanceCreate.instances
    /\ issued' = [issued EXCEPT !.meshInstance = @ \cup {meshInstanceCreate.id}]
    /\ ret' = Ret("meshInstanceCreate", meshInstanceCreate.id, 0)
    /\ UNCHANGED <<_meshes, _pointLights, _textures, _materials, _camera,
                   _whiteTexture, lightBuffer, gpu>>
    /\ ServerOnly

MeshInstanceSetMesh(meshInstance, mesh) ==
    /\ Running
    /\ _meshInstances' = meshInstanceSetMesh(meshInstance, mesh)
    /\ ret' = Ret("meshInstanceSetMesh", 0, 0)
    /\ UNCHANGED <<_meshes, _pointLights, _textures, _materials, _camera,
                   _whiteTexture, lightBuffer, gpu, issued>>
    /\ ServerOnly

MeshInstanceSetTransform(meshInstance, transform) ==
    /\ Running
    /\ _meshInstances' = meshInstanceSetTransform(meshInstance, transform)
    /\ ret' = Ret("meshInstanceSetTransform", 0, 0)
    /\ UNCHANGED <<_meshes, _pointLights, _textures, _materials, _camera,
                   _whiteTexture, lightBuffer, gpu, issued>>
    /\ ServerOnly

MeshInstanceFree(meshInstance) ==
    /\ Running
    /\ _meshInstances' = meshInstanceFree(meshInstance)
    /\ issued' = [issued EXCEPT !.meshInstance = @ \ {meshInstance}]
    /\ ret' = Ret("meshInstanceFree", 0, 0)
    /\ UNCHANGED <<_meshes, _pointLights, _textures, _materials, _camera,
                   _whiteTexture, lightBuffer, gpu>>
    /\ ServerOnly

PointLightCreate(cap) ==
    /\ Running /\ _pointLights.last < cap
    /\ _pointLights' = pointLightCreate.lights
    /\ lightBuffer' = pointLightCreate.buf
    /\ issued' = [issued EXCEPT !.pointLight = @ \cup {pointLightCreate.id}]
    /\ ret' = Ret("pointLightCreate", pointLightCreate.id, 1)
    /\ UNCHANGED <<_meshes, _meshInstances, _textures, _materials, _camera,
                   _whiteTexture, gpu>>
    /\ ServerOnly

PointLightApply(op, pointLight, r) ==
    /\ _pointLights' = r.lights
    /\ lightBuffer' = r.buf
    /\ ret' = Ret(op, 0, r.devCalls)
    /\ UNCHANGED <<_meshes, _meshInstances, _textures, _materials, _camera,
                   _whiteTexture, gpu>>
    /\ ServerOnly

PointLightSetPosition(pointLight, position) ==
    /\ Running /\ UNCHANGED issued
    /\ PointLightApply("pointLightSetPosition", pointLight,
                       pointLightSetPosition(pointLight, position))

PointLightSetRange(pointLight, range) ==
    /\ Running /\ UNCHANGED issued
    /\ PointLightApply("pointLightSetRange", pointLight,
                       pointLightSetRange(pointLight, range))

PointLightSetColor(pointLight, color) ==
    /\ Running /\ UNCHANGED issued
    /\ PointLightApply("pointLightSetColor", pointLight,
                       pointLightSetColor(pointLight, color))

PointLightSetIntensity(pointLight, intensity) ==
    /\ Running /\ UNCHANGED issued
    /\ PointLightApply("pointLightSetIntensity", pointLight,
                       pointLightSetIntensity(pointLight, intensity))

PointLightFree(pointLight) ==
    /\ Running
    /\ issued' = [issued EXCEPT !.pointLight = @ \ {pointLight}]
    /\ PointLightApply("pointLightFree", pointLight, pointLightFree(pointLight))

TextureCreate(pImage, cap) ==
    /\ Running /\ _textures.last < cap
    /\ LET r == textureCreate(pImage)
       IN /\ _textures' = r.textures
          /\ gpu' = r.gpu
          /\ issued' = [issued EXCEPT !.texture = @ \cup ({r.id} \ {NULL_HANDLE})]
          /\ ret' = Ret("textureCreate", r.id, r.devCalls)
    /\ UNCHANGED <<_meshes, _meshInstances, _pointLights, _materials, _camera,
                   _whiteTexture, lightBuffer>>
    /\ ServerOnly

TextureFree(texture) ==
    /\ Running
    /\ LET r == textureFree(texture)
       IN /\ _textures' = r.textures
          /\ gpu' = r.gpu
          /\ ret' = Ret("textureFree", 0, r.devCalls)
    /\ issued' = [issued EXCEPT !.texture = @ \ {texture}]
    /\ UNCHANGED <<_meshes, _meshInstances, _pointLights, _materials, _camera,
                   _whiteTexture, lightBuffer>>
    /\ ServerOnly

MaterialCreate(albedoTexture, cap) ==
    /\ Running /\ _materials.last < cap
    /\ \E undefined \in UndefinedTextures :
         LET r == materialCreate(albedoTexture, undefined)
         IN /\ _materials' = r.materials
            /\ gpu' = r.gpu
            /\ issued' = [issued EXCEPT !.material = @ \cup {r.id}]
            /\ ret' = RetArg("materialCreate", r.id, r.devCalls, albedoTexture)
    /\ UNCHANGED <<_meshes, _meshInstances, _pointLights, _textures, _camera,
                   _whiteTexture, lightBuffer>>
    /\ ServerOnly

MaterialFree(material) ==
    /\ Running
    /\ _materials' = materialFree(material)
    /\ issued' = [issued EXCEPT !.material = @ \ {material}]
    /\ ret' = Ret("materialFree", 0, 0)
    /\ UNCHANGED <<_meshes, _meshInstances, _pointLights, _textures, _camera,
                   _whiteTexture, lightBuffer, gpu>>
    /\ ServerOnly

(* ------------------- RenderingDevice frame loop ----------------------- *)

Slots == 0..(FRAMES_IN_FLIGHT - 1)
ImageIndices == {0, 1}
\* window dimensions, a (width, height) pair taken as one value
Sizes == {1, 2}
\* a value an unset uint32_t member may hold that is no window size
Indeterminate == -1
AcquireResults == {"success", "suboptimal", "outOfDate"}
PresentResults == {"success", "suboptimal", "outOfDate"}


\* variant: drawBegin does not wait for the fence
fenceWaitDone_noWait(slot) == TRUE

\* waitForFences(_fences[_frame], VK_TRUE, UINT64_MAX) returns once the
\* fence of the slot is signaled
fenceWaitDone(slot) == fences[slot]

\* VulkanContext::recreateSwapchain(_width, _height) followed by
\* updateInputAttachment
recreateSwapchain(sc, dims) == [sc EXCEPT !.extent = dims, !.rebound = TRUE]

\* an entry of the device call log of the current frame
Ev(op) == [op |-> op, image |-> -1]
EvImage(op, index) == [op |-> op, image |-> index]

\* variant: a suboptimal acquire recreates the swapchain as well
drawBegin_alsoSuboptimal(result, index) ==
    [imageIndex |-> index,
     swapchain |-> IF result # "success"
                   THEN recreateSwapchain(swapchain, _size)
                   ELSE [swapchain EXCEPT !.rebound = FALSE],
     \* the acquire signals _presentSemaphores[_frame] unless it failed
     semaphores |-> [semaphores EXCEPT ![_frame] = @ \/ result # "outOfDate"],
     fences |-> [fences EXCEPT ![_frame] = FALSE],
     cmdState |-> [cmdState EXCEPT ![_frame] = "recording"],
     log |-> <<Ev("waitForFences"), EvImage("acquireNextImage", index)>>
             \o (IF result # "success"
                 THEN <<Ev("recreateSwapchain"), Ev("updateInputAttachment")>>
                 ELSE <<>>)
             \o <<Ev("resetFences"), Ev("cmdReset"), Ev("cmdBegin"),
                  Ev("beginRenderPass"), Ev("bindMaterialPipeline")>>]

\* drawBegin from acquireNextImageKHR on; `result` and `index` are what the
\* acquire hands back (index is indeterminate on outOfDate)
drawBegin(result, index) ==
    [imageIndex |-> index,
     swapchain |-> IF result = "outOfDate"
                   THEN recreateSwapchain(swapchain, _size)
                   ELSE [swapchain EXCEPT !.rebound = FALSE],
     \* the acquire signals _presentSemaphores[_frame] unless it failed
     semaphores |-> [semaphores EXCEPT ![_frame] = @ \/ result # "outOfDate"],
     fences |-> [fences EXCEPT ![_frame] = FALSE],
     cmdState |-> [cmdState EXCEPT ![_frame] = "recording"],
     log |-> <<Ev("waitForFences"), EvImage("acquireNextImage", index)>>
             \o (IF result = "outOfDate"
                 THEN <<Ev("recreateSwapchain"), Ev("updateInputAttachment")>>
                 ELSE <<>>)
             \o <<Ev("resetFences"), Ev("cmdReset"), Ev("cmdBegin"),
                  Ev("beginRenderPass"), Ev("bindMaterialPipeline")>>]


\* variant: the image is presented before the command buffer is submitted
drawEnd_presentFirst(err) ==
    LET recreate == err = "outOfDate" \/ err = "suboptimal" \/ _resized
    IN [pending |-> pending \cup {[slot |-> _frame, n |-> cycles]},
        cmdState |-> [cmdState EXCEPT ![_frame] = "pending"],
        swapchain |-> IF recreate THEN recreateSwapchain(swapchain, _size) ELSE swapchain,
        resized |-> IF recreate THEN FALSE ELSE _resized,
        imageIndex |-> -1,
        frame |-> (_frame + 1) % FRAMES_IN_FLIGHT,
        log |-> <<Ev("nextSubpass"), Ev("bindTonemapPipeline"), Ev("draw"),
                  Ev("endRenderPass"), Ev("cmdEnd"), EvImage("present", _imageIndex),
                  Ev("submit")>>]

\* variant: the frame-slot index is not advanced
drawEnd_sameSlot(err) ==
    LET recreate == err = "outOfDate" \/ err = "suboptimal" \/ _resized
    IN [pending |-> pending \cup {[slot |-> _frame, n |-> cycles]},
        cmdState |-> [cmdState EXCEPT ![_frame] = "pending"],
        swapchain |-> IF recreate THEN recreateSwapchain(swapchain, _size) ELSE swapchain,
        resized |-> IF recreate THEN FALSE ELSE _resized,
        imageIndex |-> -1,
        frame |-> _frame,
        log |-> <<Ev("nextSubpass"), Ev("bindTonemapPipeline"), Ev("draw"),
                  Ev("endRenderPass"), Ev("cmdEnd"), Ev("submit"),
                  EvImage("present", _imageIndex)>>]

\* variant: the resize request survives the recreation
drawEnd_keepResized(err) ==
    LET recreate == err = "outOfDate" \/ err = "suboptimal" \/ _resized
    IN [pending |-> pending \cup {[slot |-> _frame, n |-> cycles]},
        cmdState |-> [cmdState EXCEPT ![_frame] = "pending"],
        swapchain |-> IF recreate THEN recreateSwapchain(swapchain, _size) ELSE swapchain,
        resized |-> _resized,
        imageIndex |-> -1,
        frame |-> (_frame + 1) % FRAMES_IN_FLIGHT,
        log |-> <<Ev("nextSubpass"), Ev("bindTonemapPipeline"), Ev("draw"),
                  Ev("endRenderPass"), Ev("cmdEnd"), Ev("submit"),
                  EvImage("present", _imageIndex)>>
                \o (IF recreate
                    THEN <<Ev("recreateSwapchain"), Ev("updateInputAttachment")>>
                    ELSE <<>>)]

\* drawEnd with an acquired image; `err` is the result of presentKHR
drawEnd(err) ==
    LET recreate == err = "outOfDate" \/ err = "suboptimal" \/ _resized
    IN [pending |-> pending \cup {[slot |-> _frame, n |-> cycles]},
        cmdState |-> [cmdState EXCEPT ![_frame] = "pending"],
        swapchain |-> IF recreate THEN recreateSwapchain(swapchain, _size) ELSE swapchain,
        resized |-> IF recreate THEN FALSE ELSE _resized,
        imageIndex |-> -1,
        frame |-> (_frame + 1) % FRAMES_IN_FLIGHT,
        log |-> <<Ev("nextSubpass"), Ev("bindTonemapPipeline"), Ev("draw"),
                  Ev("endRenderPass"), Ev("cmdEnd"), Ev("submit"),
                  EvImage("present", _imageIndex)>>
                \o (IF recreate
                    THEN <<Ev("recreateSwapchain"), Ev("updateInputAttachment")>>
                    ELSE <<>>)]

windowResize(dims) ==
    IF _size = dims THEN [dims |-> _size, resized |-> _resized]
    ELSE [dims |-> dims, resized |-> TRUE]

FrameOnly == UNCHANGED <<serverVars, calls, uploadVars, drawVars, sceneVars>>

\* drawBegin is entered and blocks in waitForFences
DrawBeginEnter ==
    /\ Running
    /\ cpu' = "drawBegin"
    /\ frameLog' = <<>>
    /\ UNCHANGED <<_frame, _imageIndex, _resized, _size, fences, cmdState, semaphores,
                   pending, swapchain, window, cycles, fatal, ret>>
    /\ FrameOnly

\* the wait is over; the rest of drawBegin runs and returns the command buffer
DrawBeginRun(result, index) ==
    /\ ~fatal /\ cpu = "drawBegin"
    /\ fenceWaitDone(_frame)
    /\ LET r == drawBegin(result, index)
       IN /\ _imageIndex' = r.imageIndex
          /\ swapchain' = r.swapchain
          /\ semaphores' = r.semaphores
          /\ fences' = r.fences
          /\ cmdState' = r.cmdState
          /\ frameLog' = r.log
    /\ cpu' = "ready"
    /\ ret' = Ret("drawBegin", 0, 0)
    /\ UNCHANGED <<_frame, _resized, _size, pending, window, cycles, fatal>>
    /\ FrameOnly


\* variant: drawEnd without the check of _imageIndex
DrawEnd_noCheck(err) ==
    /\ Running
    /\ ret' = Ret("drawEnd", 0, 0)
    /\ LET r == drawEnd(err)
       IN /\ pending' = r.pending
          /\ cmdState' = r.cmdState
          /\ swapchain' = r.swapchain
          /\ _resized' = r.resized
          /\ _imageIndex' = r.imageIndex
          /\ _frame' = r.frame
          /\ frameLog' = frameLog \o r.log
          /\ cycles' = cycles + 1
          /\ UNCHANGED <<_size, fences, semaphores, window, cpu, fatal>>
    /\ FrameOnly

DrawEnd(err) ==
    /\ Running
    /\ ret' = Ret("drawEnd", 0, 0)
    /\ IF _imageIndex = -1
       THEN \* std::runtime_error leaves the function at once
            /\ fatal' = TRUE
            /\ UNCHANGED <<_frame, _imageIndex, _resized, _size, fences, cmdState,
                           semaphores, pending, swapchain, window, frameLog, cpu, cycles>>
       ELSE LET r == drawEnd(err)
            IN /\ pending' = r.pending
               /\ cmdState' = r.cmdState
               /\ swapchain' = r.swapchain
               /\ _resized' = r.resized
               /\ _imageIndex' = r.imageIndex
               /\ _frame' = r.frame
               /\ frameLog' = frameLog \o r.log
               /\ cycles' = cycles + 1
               /\ UNCHANGED <<_size, fences, semaphores, window, cpu, fatal>>
    /\ FrameOnly

WindowResize(dims) ==
    /\ Running
    /\ _size' = windowResize(dims).dims
    /\ _resized' = windowResize(dims).resized
    /\ window' = dims
    /\ ret' = Ret("windowResize", 0, 0)
    /\ UNCHANGED <<_frame, _imageIndex, fences, cmdState, semaphores, pending,
                   swapchain, frameLog, cpu, cycles, fatal>>
    /\ FrameOnly

\* the GPU finishes a submission whose wait semaphore is signaled: the
\* semaphore is consumed, the fence of the slot is signaled
GpuComplete(sub) ==
    /\ sub \in pending
    /\ semaphores[sub.slot]
    /\ pending' = pending \ {sub}
    /\ semaphores' = [semaphores EXCEPT ![sub.slot] = FALSE]
    /\ fences' = [fences EXCEPT ![sub.slot] = TRUE]
    /\ cmdState' = [cmdState EXCEPT ![sub.slot] =
                        IF \E p \in pending \ {sub} : p.slot = sub.slot
                        THEN "pending" ELSE "executable"]
    /\ UNCHANGED <<_frame, _imageIndex, _resized, _size, swapchain, window, frameLog,
                   cpu, cycles, fatal, ret>>
    /\ FrameOnly

(* -------------------------- RenderingServer::draw ---------------------- *)

\* what _meshes[h] yields for a handle that is not in the registry
UndefinedMeshes ==
    {EmptyMesh,
     [primitives |-> <<[vertexBuffer |-> 0, indexBuffer |-> 0, indexCount |-> 3,
                        material |-> 0]>>]}

DrawIndexed(indexCount, instanceCount, firstIndex) ==
    [op |-> "drawIndexed", image |-> -1, indexCount |-> indexCount,
     instanceCount |-> instanceCount, firstIndex |-> firstIndex]

\* the inner loop of draw(): the primitives of one mesh from the p-th on
RECURSIVE recordPrimitives(_, _)
recordPrimitives(primitives, p) ==
    IF p > Len(primitives) THEN <<>>
    ELSE <<Ev("bindDescriptorSets"), Ev("bindVertexBuffers"), Ev("bindIndexBuffer"),
           DrawIndexed(primitives[p].indexCount, 1, 0)>>
         \o recordPrimitives(primitives, p + 1)

\* the outer loop of draw(): the mesh instances from the i-th on
RECURSIVE recordInstances(_, _, _)
recordInstances(instances, i, undefined) ==
    IF i > Len(instances) THEN <<>>
    ELSE LET mesh == IF has(_meshes, instances[i].mesh)
                     THEN get(_meshes, instances[i].mesh) ELSE undefined
         IN <<Ev("pushConstants")>> \o recordPrimitives(mesh.primitives, 1)
            \o recordInstances(instances, i + 1, undefined)

NoObjects == [buffers |-> {}, views |-> {}, samplers |-> {}]

\* the primitives the loops of draw() visit
drawnPrimitives(undefined) ==
    UNION {{m.primitives[p] : p \in DOMAIN m.primitives} :
              m \in {IF has(_meshes, inst.mesh) THEN get(_meshes, inst.mesh) ELSE undefined :
                         inst \in {_meshInstances.map[i].val : i \in DOMAIN _meshInstances.map}}}

\* the GPU objects that exist and that the recorded commands bind: vertex and
\* index buffers, and through material.albedoSet an image view and a sampler
boundObjects(undefined) ==
    LET prims == drawnPrimitives(undefined)
        sets == {s \in gpu.sets : \E pr \in prims :
                     /\ has(_materials, pr.material)
                     /\ get(_materials, pr.material).albedoSet = s.id}
    IN [buffers |-> ({pr.vertexBuffer : pr \in prims} \cup {pr.indexBuffer : pr \in prims})
                        \cap gpu.buffers,
        views |-> {s.imageView : s \in sets} \cap gpu.views,
        samplers |-> {s.sampler : s \in sets} \cap gpu.samplers]

\* RS::draw from the return of drawBegin on: the instances are recorded and
\* drawEnd is called
Draw(err) ==
    /\ Running /\ _imageIndex # -1
    /\ ret' = Ret("draw", 0, 0)
    /\ \E undefined \in UndefinedMeshes :
          LET r == drawEnd(err)
          IN /\ pending' = r.pending
             /\ cmdState' = r.cmdState
             /\ swapchain' = r.swapchain
             /\ _resized' = r.resized
             /\ _imageIndex' = r.imageIndex
             /\ _frame' = r.frame
             /\ frameLog' = frameLog
                            \o recordInstances(values(_meshInstances), 1, undefined)
                            \o r.log
             /\ bound' = [bound EXCEPT ![_frame] = boundObjects(undefined)]
             /\ cycles' = cycles + 1
    /\ UNCHANGED <<_size, fences, semaphores, window, cpu, fatal>>
    /\ UNCHANGED <<serverVars, calls, uploadVars, uniforms, sceneVars>>

(* ---------------- RenderingDevice one-shot command path --------------- *)

Layouts == {"undefined", "transferDst", "transferSrc", "shaderReadOnly"}
\* widths and heights of the images uploaded
Extents == {1, 2, 3, 512, 1024}
NoImage == [width |-> 0, height |-> 0, mipLevels |-> 0, layouts |-> <<>>,
            passed |-> <<>>, mismatch |-> FALSE, copied |-> FALSE]

Max(a, b) == IF a > b THEN a ELSE b

RECURSIVE floorLog2(_)
floorLog2(n) == IF n <= 1 THEN 0 ELSE 1 + floorLog2(n \div 2)

\* variant: the smaller of the two extents decides
mipLevels_ofMin(width, height) ==
    floorLog2(IF width < height THEN width ELSE height) + 1

\* static_cast<uint32_t>(std::floor(std::log2(std::max(width, height)))) + 1
mipLevels(width, height) == floorLog2(Max(width, height)) + 1

\* imageCreate: every level starts in the undefined layout
imageCreate(width, height) ==
    [width |-> width, height |-> height, mipLevels |-> mipLevels(width, height),
     layouts |-> [l \in 1..mipLevels(width, height) |-> "undefined"],
     passed |-> [l \in 1..mipLevels(width, height) |-> <<>>],
     mismatch |-> FALSE, copied |-> FALSE]

\* a pipeline barrier on levels base .. base + count - 1 (levels from 0)
Barrier(base, count, oldLayout, newLayout) ==
    [cmd |-> "barrier", base |-> base, count |-> count,
     oldLayout |-> oldLayout, newLayout |-> newLayout, value |-> 0]
\* a blit of level src, of extent srcExtent, into level dst at dstExtent
Blit(src, dst, srcExtent, dstExtent) ==
    [cmd |-> "blit", base |-> src, count |-> dst,
     oldLayout |-> "transferSrc", newLayout |-> "transferDst", value |-> 0,
     srcExtent |-> srcExtent, dstExtent |-> dstExtent]
CopyBufferToImage ==
    [cmd |-> "copyBufferToImage", base |-> 0, count |-> 1,
     oldLayout |-> "transferDst", newLayout |-> "transferDst", value |-> 0]
CopyBuffer(value) ==
    [cmd |-> "copyBuffer", base |-> 0, count |-> 0,
     oldLayout |-> "undefined", newLayout |-> "undefined", value |-> value]

\* variant: every pair of layouts is accepted
_transitionImageLayout_anyPair(mipLevelCount, oldLayout, newLayout) ==
    [fatal |-> FALSE,
     commands |-> <<Barrier(0, mipLevelCount, oldLayout, newLayout)>>]

\* the commands _transitionImageLayout records, or the exception it throws
_transitionImageLayout(mipLevelCount, oldLayout, newLayout) ==
    IF \/ oldLayout = "undefined" /\ newLayout = "transferDst"
       \/ oldLayout = "transferDst" /\ newLayout = "shaderReadOnly"
    THEN [fatal |-> FALSE,
          commands |-> <<Barrier(0, mipLevelCount, oldLayout, newLayout)>>]
    ELSE [fatal |-> TRUE, commands |-> <<>>]

\* mipWidth > 1 ? mipWidth / 2 : 1
halfExtent(n) == IF n > 1 THEN n \div 2 ELSE 1

\* if (mipWidth > 1) mipWidth /= 2;
nextExtent(n) == IF n > 1 THEN n \div 2 ELSE n

\* variant: the source level is not moved to transfer-src before the blit
mipStep_noSrcBarrier(i, mipWidth, mipHeight) ==
    <<Blit(i - 1, i, <<mipWidth, mipHeight>>,
           <<halfExtent(mipWidth), halfExtent(mipHeight)>>),
      Barrier(i - 1, 1, "transferSrc", "shaderReadOnly")>>

\* the body of the loop of _generateMipmaps for level i
mipStep(i, mipWidth, mipHeight) ==
    <<Barrier(i - 1, 1, "transferDst", "transferSrc"),
      Blit(i - 1, i, <<mipWidth, mipHeight>>,
           <<halfExtent(mipWidth), halfExtent(mipHeight)>>),
      Barrier(i - 1, 1, "transferSrc", "shaderReadOnly")>>

\* variant: the working extent is halved without the test for 1
RECURSIVE mipLoop_noClamp(_, _, _, _)
mipLoop_noClamp(i, mipLevelCount, mipWidth, mipHeight) ==
    IF i < mipLevelCount
    THEN mipStep(i, mipWidth, mipHeight)
         \o mipLoop_noClamp(i + 1, mipLevelCount, mipWidth \div 2, mipHeight \div 2)
    ELSE <<>>

RECURSIVE mipLoop(_, _, _, _)
mipLoop(i, mipLevelCount, mipWidth, mipHeight) ==
    IF i < mipLevelCount
    THEN mipStep(i, mipWidth, mipHeight)
         \o mipLoop(i + 1, mipLevelCount, nextExtent(mipWidth), nextExtent(mipHeight))
    ELSE <<>>

\* variant: the last level is left as the loop left it
_generateMipmaps_noLastBarrier(mipLevelCount, width, height) ==
    mipLoop(1, mipLevelCount, width, height)

\* the commands _generateMipmaps records
_generateMipmaps(mipLevelCount, width, height) ==
    mipLoop(1, mipLevelCount, width, height)
        \o <<Barrier(mipLevelCount - 1, 1, "transferDst", "shaderReadOnly")>>

\* levels (counted from 1) a command names that are not levels of the image
levelsOf(c) == IF c.cmd = "blit" THEN {c.base + 1, c.count + 1}
               ELSE (c.base + 1)..(c.base + c.count)

\* the GPU executes one command on the image
execute(img, c) ==
    IF c.cmd = "barrier"
    THEN [img EXCEPT
            !.layouts = [l \in DOMAIN @ |->
                            IF l \in levelsOf(c) THEN c.newLayout ELSE @[l]],
            !.passed = [l \in DOMAIN @ |->
                            IF l \in levelsOf(c) THEN Append(@[l], c.newLayout) ELSE @[l]],
            !.mismatch = \/ @
                         \/ ~(levelsOf(c) \subseteq DOMAIN img.layouts)
                         \/ \E l \in levelsOf(c) \cap DOMAIN img.layouts :
                               c.oldLayout # "undefined" /\ img.layouts[l] # c.oldLayout]
    ELSE IF c.cmd = "blit"
    THEN [img EXCEPT
            !.mismatch = \/ @
                         \/ ~(levelsOf(c) \subseteq DOMAIN img.layouts)
                         \/ img.layouts[c.base + 1] # "transferSrc"
                         \/ img.layouts[c.count + 1] # "transferDst"]
    ELSE IF c.cmd = "copyBufferToImage"
    THEN [img EXCEPT !.copied = TRUE,
                     !.mismatch = @ \/ img.layouts[1] # "transferDst"]
    ELSE img

RECURSIVE executeAll(_, _, _)
executeAll(img, commands, i) ==
    IF i > Len(commands) THEN img
    ELSE executeAll(execute(img, commands[i]), commands, i + 1)

\* the value a submission leaves in the destination buffer
written(dst, commands) ==
    IF \E i \in DOMAIN commands : commands[i].cmd = "copyBuffer"
    THEN commands[CHOOSE i \in DOMAIN commands : commands[i].cmd = "copyBuffer"].value
    ELSE dst

\* variant: the queue is not waited for
queueIdle_noWait(queue) == TRUE

\* graphicsQueue.waitIdle() returns when nothing submitted is unfinished
queueIdle(queue) == queue = <<>>

UploadOnly ==
    UNCHANGED <<serverVars, _frame, _imageIndex, _resized, _size, fences, cmdState,
                semaphores, pending, swapchain, window, frameLog, cycles, drawVars,
                sceneVars>>

\* _beginSingleTimeCommands .. graphicsQueue.submit in _endSingleTimeCommands:
\* a command buffer is allocated, `commands` recorded, and it is submitted
submitSingleTime(op, commands) ==
    [upload EXCEPT !.oneShot = @ + 1, !.queue = Append(@, commands), !.op = op]

ImageCreate(width, height) ==
    /\ Running
    /\ image' = imageCreate(width, height)
    /\ ret' = Ret("imageCreate", 0, 0)
    /\ UNCHANGED <<upload, cpu, fatal>>
    /\ UploadOnly

TransitionImageLayout(oldLayout, newLayout) ==
    /\ Running /\ image # NoImage
    /\ LET r == _transitionImageLayout(image.mipLevels, oldLayout, newLayout)
       IN IF r.fatal
          THEN \* std::invalid_argument leaves the function; the command buffer
               \* stays allocated
               /\ fatal' = TRUE
               /\ upload' = [upload EXCEPT !.oneShot = @ + 1,
                                           !.op = "_transitionImageLayout"]
               /\ UNCHANGED cpu
          ELSE /\ upload' = submitSingleTime("_transitionImageLayout", r.commands)
               /\ cpu' = "waitIdle"
               /\ UNCHANGED fatal
    /\ ret' = Ret("_transitionImageLayout", 0, 0)
    /\ UNCHANGED image
    /\ UploadOnly

BufferCopyToImage ==
    /\ Running /\ image # NoImage
    /\ upload' = submitSingleTime("_bufferCopyToImage", <<CopyBufferToImage>>)
    /\ cpu' = "waitIdle"
    /\ ret' = Ret("_bufferCopyToImage", 0, 0)
    /\ UNCHANGED <<image, fatal>>
    /\ UploadOnly

GenerateMipmaps ==
    /\ Running /\ image # NoImage
    /\ upload' = submitSingleTime("_generateMipmaps",
                                 _generateMipmaps(image.mipLevels, image.width, image.height))
    /\ cpu' = "waitIdle"
    /\ ret' = Ret("_generateMipmaps", 0, 0)
    /\ UNCHANGED <<image, fatal>>
    /\ UploadOnly

\* bufferSend up to the wait: staging buffer created and filled, the copy
\* recorded and submitted
BufferSend(value) ==
    /\ Running
    /\ upload' = [submitSingleTime("bufferSend", <<CopyBuffer(value)>>)
                     EXCEPT !.staging = @ + 1, !.sent = value]
    /\ cpu' = "waitIdle"
    /\ ret' = Ret("bufferSend", 0, 0)
    /\ UNCHANGED <<image, fatal>>
    /\ UploadOnly

\* the GPU runs the submission at the head of the queue
GpuExecute ==
    /\ upload.queue # <<>>
    /\ image' = executeAll(image, Head(upload.queue), 1)
    /\ upload' = [upload EXCEPT !.queue = Tail(@),
                                !.dst = written(@, Head(upload.queue))]
    /\ UNCHANGED <<cpu, fatal, ret, calls>>
    /\ UploadOnly

\* waitIdle returns: the command buffer is freed and, in bufferSend, the
\* staging buffer destroyed
SingleTimeCommandsDone ==
    /\ ~fatal /\ cpu = "waitIdle"
    /\ queueIdle(upload.queue)
    /\ upload' = [upload EXCEPT !.oneShot = @ - 1,
                                !.staging = IF upload.op = "bufferSend" THEN @ - 1 ELSE @]
    /\ cpu' = "ready"
    /\ UNCHANGED <<image, fatal, ret, calls>>
    /\ UploadOnly

(* -------------------- RenderingDevice::textureCreate ------------------- *)
(* The function blocks three times in _endSingleTimeCommands; an action   *)
(* runs it from one wait to the next. upload.steps lists the calls made.  *)

\* variant: the image is not moved to transfer-dst before the copy
TextureCreateBegin_noTransition(width, height) ==
    /\ Running
    /\ image' = imageCreate(width, height)
    /\ upload' = [submitSingleTime("_transitionImageLayout", <<>>)
                     EXCEPT !.staging = @ + 1,
                            !.steps = <<"imageCreate", "bufferCreate", "memcpy",
                                        "_transitionImageLayout">>]
    /\ cpu' = "textureCreate"
    /\ ret' = Ret("textureCreate", 0, 0)
    /\ UNCHANGED fatal
    /\ UploadOnly

\* imageCreate, the staging buffer created and filled, _transitionImageLayout
\* up to its wait
TextureCreateBegin(width, height) ==
    /\ Running
    /\ image' = imageCreate(width, height)
    /\ upload' = [submitSingleTime("_transitionImageLayout",
                      _transitionImageLayout(mipLevels(width, height),
                                             "undefined", "transferDst").commands)
                     EXCEPT !.staging = @ + 1,
                            !.steps = <<"imageCreate", "bufferCreate", "memcpy",
                                        "_transitionImageLayout">>]
    /\ cpu' = "textureCreate"
    /\ ret' = Ret("textureCreate", 0, 0)
    /\ UNCHANGED fatal
    /\ UploadOnly

\* the wait of `op` is over and its command buffer freed; `next` is entered
\* and submits `commands`
textureCreateNext(op, next, commands, steps) ==
    /\ ~fatal /\ cpu = "textureCreate" /\ upload.op = op
    /\ queueIdle(upload.queue)
    /\ upload' = [upload EXCEPT !.queue = Append(@, commands), !.op = next,
                                !.steps = @ \o steps,
                                !.staging = IF "bufferDestroy" \in {steps[i] : i \in DOMAIN steps}
                                            THEN @ - 1 ELSE @]
    /\ UNCHANGED <<image, cpu, fatal, ret, calls>>
    /\ UploadOnly

\* _bufferCopyToImage up to its wait
TextureCreateCopy ==
    textureCreateNext("_transitionImageLayout", "_bufferCopyToImage",
                      <<CopyBufferToImage>>, <<"_bufferCopyToImage">>)

\* bufferDestroy(stagingBuffer), _generateMipmaps up to its wait
TextureCreateMipmaps ==
    textureCreateNext("_bufferCopyToImage", "_generateMipmaps",
                      _generateMipmaps(image.mipLevels, image.width, image.height),
                      <<"bufferDestroy", "_generateMipmaps">>)

\* imageViewCreate, samplerCreate, return
TextureCreateReturn ==
    /\ ~fatal /\ cpu = "textureCreate" /\ upload.op = "_generateMipmaps"
    /\ queueIdle(upload.queue)
    /\ upload' = [upload EXCEPT !.oneShot = @ - 1,
                                !.steps = @ \o <<"imageViewCreate", "samplerCreate">>]
    /\ cpu' = "ready"
    /\ UNCHANGED <<image, fatal, ret, calls>>
    /\ UploadOnly

(* ------------------ RenderingServer::draw, first part ------------------ *)

\* RenderingDevice::updateUniformBuffer: memcpy into the mapped uniform buffer
\* of the current frame slot
updateUniformBuffer(viewPosition, lightCount) ==
    [uniforms EXCEPT ![_frame] = [viewPosition |-> viewPosition,
                                  lightCount |-> lightCount,
                                  writes |-> @.writes + 1]]

\* variant: draw() refreshes the light buffer through bufferSend
DrawEnter_sendLights ==
    /\ Running
    /\ uniforms' = updateUniformBuffer(_camera.transform, size(_pointLights))
    /\ upload' = [submitSingleTime("bufferSend", <<CopyBuffer(0)>>)
                     EXCEPT !.staging = @ + 1]
    /\ cpu' = "drawBegin"
    /\ frameLog' = <<>>
    /\ UNCHANGED <<_frame, _imageIndex, _resized, _size, fences, cmdState, semaphores,
                   pending, swapchain, window, cycles, fatal, ret>>
    /\ UNCHANGED <<serverVars, calls, image, bound, sceneVars>>

\* RS::draw up to the wait in drawBegin: the uniform buffer of the slot is
\* written, then drawBegin is entered and blocks in waitForFences
DrawEnter ==
    /\ Running
    /\ uniforms' = updateUniformBuffer(_camera.transform, size(_pointLights))
    /\ upload' = upload
    /\ cpu' = "drawBegin"
    /\ frameLog' = <<>>
    /\ UNCHANGED <<_frame, _imageIndex, _resized, _size, fences, cmdState, semaphores,
                   pending, swapchain, window, cycles, fatal, ret>>
    /\ UNCHANGED <<serverVars, calls, image, bound, sceneVars>>

(* ----------------------- asset loader: _loadMesh ---------------------- *)
(* An action is the allocation, one iteration of the loop over the        *)
(* primitives, or the return.                                             *)

\* a glTF primitive: whether its POSITION accessor has a buffer view, and its
\* material index
GltfPrimitives == [bufferView : BOOLEAN, materialIndex : {0, 1}]

\* the primitives of a glTF mesh
GltfMeshes == UNION {[1..n -> GltfPrimitives] : n \in 0..MaxMeshPrimitives}

\* what malloc'ed memory may hold where nothing has been written
Unwritten == {[vertices |-> "indeterminate", materialIndex |-> g] : g \in {0, 7}}

InitLoader ==
    loaded = [pc |-> "idle", mesh |-> <<>>, pos |-> 1, idx |-> 0,
              pPrimitives |-> <<>>, primitiveCount |-> 0, written |-> {},
              returned |-> FALSE]

LoaderOnly ==
    UNCHANGED <<serverVars, frameVars, fatal, uploadVars, drawVars, scene, ret, calls>>

\* primitiveCount = mesh.primitives.size(); pPrimitives = malloc(..); idx = 0.
\* Entry i of the array is pPrimitives[i + 1] here.
LoadMeshBegin(mesh, memory) ==
    /\ loaded.pc = "idle"
    /\ loaded' = [pc |-> "loop", mesh |-> mesh, pos |-> 1, idx |-> 0,
                  pPrimitives |-> memory, primitiveCount |-> Len(mesh),
                  written |-> {}, returned |-> FALSE]
    /\ LoaderOnly

\* one iteration: `continue` when the position accessor has no buffer view,
\* else pPrimitives[idx] is assigned and idx advanced
loadPrimitive(l) ==
    LET primitive == l.mesh[l.pos]
    IN IF ~primitive.bufferView
       THEN [l EXCEPT !.pos = @ + 1]
       ELSE [l EXCEPT !.pPrimitives[l.idx + 1] =
                          [vertices |-> "loaded",
                           materialIndex |-> primitive.materialIndex],
                      !.written = @ \cup {l.idx},
                      !.idx = @ + 1, !.pos = @ + 1]

LoadMeshPrimitive ==
    /\ loaded.pc = "loop" /\ loaded.pos <= Len(loaded.mesh)
    /\ loaded' = loadPrimitive(loaded)
    /\ LoaderOnly

\* return {pPrimitives, primitiveCount, pName}
LoadMeshReturn ==
    /\ loaded.pc = "loop" /\ loaded.pos > Len(loaded.mesh)
    /\ loaded' = [loaded EXCEPT !.pc = "idle", !.returned = TRUE]
    /\ LoaderOnly

(* ------------------------------- Scene -------------------------------- *)
(* Scene::load and Scene::clear make one call into the server after the   *)
(* other. An action is one of these calls with the statements around it;  *)
(* scene.done counts the finished iterations of the four loops of load,   *)
(* scene.sub the calls made in the current iteration.                     *)

\* Loader::loadGltf found nothing
NoScene == [valid |-> FALSE, materials |-> <<>>, meshes |-> <<>>,
            meshInstances |-> <<>>, lights |-> <<>>]

\* Loader::Scene: per material whether it has an albedo image, per mesh the
\* material index of each primitive, per mesh instance its mesh index, per
\* light its type
LoaderScene(materials, meshes, meshInstances, lights) ==
    [valid |-> TRUE, materials |-> materials, meshes |-> meshes,
     meshInstances |-> meshInstances, lights |-> lights]

LoaderScenes ==
    {NoScene}
    \cup {LoaderScene(m, <<<<0>>>>, <<0>>, l) :
             m \in {<<FALSE>>, <<TRUE>>}, l \in {<<>>, <<"Point">>, <<"Directional">>}}
    \cup {LoaderScene(<<TRUE, FALSE>>, <<<<1, 0>>>>, <<0>>, <<>>)}

\* an image as the loader hands it to textureCreate
LoadedImage == [format |-> "RGBA8", width |-> 1, height |-> 1]

NoneDone == [materials |-> 0, meshes |-> 0, meshInstances |-> 0, lights |-> 0]
NoneMade == [materials |-> <<>>, meshes |-> <<>>, meshInstances |-> <<>>]

\* a scene before its first load; directionalLights is the server's registry
\* of directional lights, `made` the handles the running load has created
InitScene ==
    scene = [_textures |-> <<>>, _materials |-> <<>>, _meshes |-> <<>>,
             _meshInstances |-> <<>>, _pointLights |-> <<>>,
             _directionalLights |-> <<>>,
             directionalLights |-> EmptyOwner,
             pc |-> "idle", input |-> NoScene, done |-> NoneDone, sub |-> 0,
             cur |-> NULL_HANDLE, primitives |-> <<>>, made |-> NoneMade,
             frees |-> <<>>, freed |-> <<>>]

\* the server state a call of the scene may change
server ==
    [meshes |-> _meshes, instances |-> _meshInstances, lights |-> _pointLights,
     textures |-> _textures, materials |-> _materials, gpu |-> gpu,
     buf |-> lightBuffer]

\* the scene makes the call `op`, which leaves the values `r` in the server,
\* and is left as `sc`
SceneCall(op, r, sc) ==
    /\ ~fatal
    /\ LET after == r @@ server
       IN /\ _meshes' = after.meshes
          /\ _meshInstances' = after.instances
          /\ _pointLights' = after.lights
          /\ _textures' = after.textures
          /\ _materials' = after.materials
          /\ gpu' = after.gpu
          /\ lightBuffer' = after.buf
    /\ scene' = sc
    /\ ret' = Ret(op, 0, 0)
    /\ UNCHANGED <<_camera, _whiteTexture, issued, calls, frameVars, fatal,
                   uploadVars, drawVars, loaded>>

\* Scene::load up to the first loop; false when the loader found nothing
SceneLoad(input) ==
    /\ Running /\ scene.pc = "idle"
    /\ scene' = IF ~input.valid THEN scene
                ELSE [scene EXCEPT !.pc = "load", !.input = input, !.done = NoneDone,
                                   !.sub = 0, !.made = NoneMade]
    /\ ret' = Ret("Scene::load", 0, 0)
    /\ UNCHANGED <<serverVars, frameVars, fatal, uploadVars, drawVars, loaded>>

InMaterials ==
    scene.pc = "load" /\ scene.done.materials < Len(scene.input.materials)

\* albedo = textureCreate(pAlbedoMap); _textures.push_back(albedo)
SceneLoadTexture ==
    /\ InMaterials /\ scene.sub = 0
    /\ scene.input.materials[scene.done.materials + 1]
    /\ LET r == textureCreate(LoadedImage)
       IN SceneCall("textureCreate", r,
                    [scene EXCEPT !._textures = Append(@, r.id), !.cur = r.id,
                                  !.sub = 1])

\* material = materialCreate(albedo, ..); _materials.push_back(material)
SceneLoadMaterial ==
    /\ InMaterials
    /\ scene.sub = 1 \/ ~scene.input.materials[scene.done.materials + 1]
    /\ \E undefined \in UndefinedTextures :
         LET r == materialCreate(IF scene.sub = 1 THEN scene.cur ELSE NULL_HANDLE,
                                 undefined)
         IN SceneCall("materialCreate", r,
                      [scene EXCEPT !._materials = Append(@, r.id),
                                    !.made.materials = Append(@, r.id),
                                    !.done.materials = @ + 1,
                                    !.sub = 0, !.cur = NULL_HANDLE])

InMeshes ==
    /\ scene.pc = "load" /\ scene.done.materials = Len(scene.input.materials)
    /\ scene.done.meshes < Len(scene.input.meshes)

\* variant: the index counts from the first material of this load
loadedMaterial_ofThisLoad(materialIndex) ==
    scene.made.materials[materialIndex + 1]

\* Material material = _materials[materialIndex];
loadedMaterial(materialIndex) == scene._materials[materialIndex + 1]

\* the primitives of the mesh get their materials; the mesh is created and
\* pushed to _meshes
SceneLoadMesh ==
    /\ InMeshes /\ scene.sub = 0
    /\ LET sceneMesh == scene.input.meshes[scene.done.meshes + 1]
           primitives == [j \in DOMAIN sceneMesh |-> loadedMaterial(sceneMesh[j])]
           r == meshCreate
       IN SceneCall("meshCreate", r,
                    [scene EXCEPT !._meshes = Append(@, r.id),
                                  !.made.meshes = Append(@, r.id),
                                  !.cur = IF primitives = <<>> THEN NULL_HANDLE ELSE r.id,
                                  !.primitives = primitives,
                                  !.sub = IF primitives = <<>> THEN 0 ELSE 1,
                                  !.done.meshes = IF primitives = <<>> THEN @ + 1 ELSE @])

\* the next primitive goes into the mesh
SceneLoadPrimitive ==
    /\ InMeshes /\ scene.sub = 1
    /\ LET r == meshAddPrimitive(scene.cur, 3, Head(scene.primitives))
           last == Len(scene.primitives) = 1
       IN SceneCall("meshAddPrimitive", r,
                    [scene EXCEPT !.primitives = Tail(@),
                                  !.cur = IF last THEN NULL_HANDLE ELSE @,
                                  !.sub = IF last THEN 0 ELSE 1,
                                  !.done.meshes = IF last THEN @ + 1 ELSE @])

InMeshInstances ==
    /\ scene.pc = "load" /\ scene.done.materials = Len(scene.input.materials)
    /\ scene.done.meshes = Len(scene.input.meshes)
    /\ scene.done.meshInstances < Len(scene.input.meshInstances)

\* Mesh mesh = _meshes[meshIndex];
loadedMesh(meshIndex) == scene._meshes[meshIndex + 1]

\* meshInstance = meshInstanceCreate()
SceneLoadMeshInstance ==
    /\ InMeshInstances /\ scene.sub = 0
    /\ LET r == meshInstanceCreate
       IN SceneCall("meshInstanceCreate", r,
                    [scene EXCEPT !.cur = r.id, !.sub = 1])

\* meshInstanceSetMesh(meshInstance, mesh)
SceneLoadSetMesh ==
    /\ InMeshInstances /\ scene.sub = 1
    /\ LET mesh == loadedMesh(scene.input.meshInstances[scene.done.meshInstances + 1])
       IN SceneCall("meshInstanceSetMesh",
                    [instances |-> meshInstanceSetMesh(scene.cur, mesh)],
                    [scene EXCEPT !.sub = 2])

\* meshInstanceSetTransform(meshInstance, transform);
\* _meshInstances.push_back(meshInstance)
SceneLoadSetTransform ==
    /\ InMeshInstances /\ scene.sub = 2
    /\ SceneCall("meshInstanceSetTransform",
                 [instances |-> meshInstanceSetTransform(scene.cur, 1)],
                 [scene EXCEPT !._meshInstances = Append(@, scene.cur),
                               !.made.meshInstances = Append(@, scene.cur),
                               !.done.meshInstances = @ + 1,
                               !.sub = 0, !.cur = NULL_HANDLE])

InLights ==
    /\ scene.pc = "load" /\ scene.done.materials = Len(scene.input.materials)
    /\ scene.done.meshes = Len(scene.input.meshes)
    /\ scene.done.meshInstances = Len(scene.input.meshInstances)
    /\ scene.done.lights < Len(scene.input.lights)

\* pointLight = pointLightCreate()
SceneLoadPointLight ==
    /\ InLights /\ scene.sub = 0
    /\ scene.input.lights[scene.done.lights + 1] = "Point"
    /\ LET r == pointLightCreate
       IN SceneCall("pointLightCreate", r, [scene EXCEPT !.cur = r.id, !.sub = 1])

\* the four setters in turn, then _pointLights.push_back(pointLight)
SceneLoadPointLightSet ==
    /\ InLights /\ scene.sub \in 1..4
    /\ LET field == <<"position", "range", "color", "intensity">>[scene.sub]
       IN SceneCall(field, pointLightSet(scene.cur, field, 1),
                    IF scene.sub < 4
                    THEN [scene EXCEPT !.sub = @ + 1]
                    ELSE [scene EXCEPT !._pointLights = Append(@, scene.cur),
                                       !.done.lights = @ + 1,
                                       !.sub = 0, !.cur = NULL_HANDLE])

\* directionalLightCreate, its three setters and
\* _directionalLights.push_back(directionalLight)
SceneLoadDirectionalLight ==
    /\ InLights /\ scene.sub = 0
    /\ scene.input.lights[scene.done.lights + 1] = "Directional"
    /\ SceneCall("directionalLightCreate", server,
                 [scene EXCEPT !.directionalLights = insert(@, 1),
                               !._directionalLights =
                                   Append(@, nextId(scene.directionalLights)),
                               !.done.lights = @ + 1])

\* the loops are over: the images are released, load returns true
SceneLoadReturn ==
    /\ ~fatal /\ scene.pc = "load"
    /\ scene.done = [materials |-> Len(scene.input.materials),
                     meshes |-> Len(scene.input.meshes),
                     meshInstances |-> Len(scene.input.meshInstances),
                     lights |-> Len(scene.input.lights)]
    /\ scene' = [scene EXCEPT !.pc = "idle"]
    /\ ret' = Ret("Scene::load", 1, 0)
    /\ UNCHANGED <<serverVars, calls, frameVars, fatal, uploadVars, drawVars, loaded>>

\* the calls `op(h)` for the handles of one vector, in its order
freeCalls(op, handles) == [i \in DOMAIN handles |-> [op |-> op, handle |-> handles[i]]]

\* variant: the meshes are released first
clearCalls_meshesFirst ==
    freeCalls("meshFree", scene._meshes)
    \o freeCalls("meshInstanceFree", scene._meshInstances)
    \o freeCalls("directionalLightFree", scene._directionalLights)
    \o freeCalls("pointLightFree", scene._pointLights)
    \o freeCalls("materialFree", scene._materials)
    \o freeCalls("textureFree", scene._textures)

\* the six loops of Scene::clear
clearCalls ==
    freeCalls("meshInstanceFree", scene._meshInstances)
    \o freeCalls("directionalLightFree", scene._directionalLights)
    \o freeCalls("pointLightFree", scene._pointLights)
    \o freeCalls("meshFree", scene._meshes)
    \o freeCalls("materialFree", scene._materials)
    \o freeCalls("textureFree", scene._textures)

\* Scene::clear is entered
SceneClear ==
    /\ Running /\ scene.pc = "idle"
    /\ scene' = [scene EXCEPT !.pc = "clear", !.frees = clearCalls, !.freed = <<>>]
    /\ ret' = Ret("Scene::clear", 0, 0)
    /\ UNCHANGED <<serverVars, frameVars, fatal, uploadVars, drawVars, loaded>>

\* whether the handle of the call is in the registry the call works on
liveHandle(c) ==
    CASE c.op = "meshInstanceFree" -> has(_meshInstances, c.handle)
      [] c.op = "directionalLightFree" -> has(scene.directionalLights, c.handle)
      [] c.op = "pointLightFree" -> has(_pointLights, c.handle)
      [] c.op = "meshFree" -> has(_meshes, c.handle)
      [] c.op = "materialFree" -> has(_materials, c.handle)
      [] c.op = "textureFree" -> has(_textures, c.handle)

\* what the call leaves in the server
sceneFree(c) ==
    CASE c.op = "meshInstanceFree" -> [instances |-> meshInstanceFree(c.handle)]
      [] c.op = "directionalLightFree" -> server
      [] c.op = "pointLightFree" -> pointLightFree(c.handle)
      [] c.op = "meshFree" -> meshFree(c.handle)
      [] c.op = "materialFree" -> [materials |-> materialFree(c.handle)]
      [] c.op = "textureFree" -> textureFree(c.handle)

\* the next call of the six loops
SceneClearFree ==
    /\ scene.pc = "clear" /\ scene.frees # <<>>
    /\ LET c == Head(scene.frees)
       IN SceneCall(c.op, sceneFree(c),
                    [scene EXCEPT !.frees = Tail(@),
                                  !.freed = Append(@, [op |-> c.op, handle |-> c.handle,
                                                       live |-> liveHandle(c)]),
                                  !.directionalLights =
                                      IF c.op = "directionalLightFree"
                                      THEN remove(@, c.handle) ELSE @])

\* the five clear() calls that end Scene::clear
SceneClearReturn ==
    /\ ~fatal /\ scene.pc = "clear" /\ scene.frees = <<>>
    /\ scene' = [scene EXCEPT !.pc = "idle", !._meshInstances = <<>>,
                              !._pointLights = <<>>, !._meshes = <<>>,
                              !._materials = <<>>, !._textures = <<>>]
    /\ ret' = Ret("Scene::clear", 1, 0)
    /\ UNCHANGED <<serverVars, calls, frameVars, fatal, uploadVars, drawVars, loaded>>

(* --------------------------- initial state ---------------------------- *)
(* The state after RS::init and RS::windowInit: the device objects exist  *)
(* and the fallback white texture is the first texture.                   *)

InitGpu == [buffers |-> {1, 2, 3}, images |-> {}, views |-> {}, samplers |-> {},
            sets |-> {}, badDestroy |-> FALSE]

InitServer ==
    /\ _meshes = EmptyOwner
    /\ _meshInstances = EmptyOwner
    /\ _pointLights = EmptyOwner
    /\ _materials = EmptyOwner
    /\ _textures = insert(EmptyOwner, deviceTextureCreate(InitGpu).tex)
    /\ _whiteTexture = nextId(EmptyOwner)
    /\ gpu = deviceTextureCreate(InitGpu).gpu
    /\ lightBuffer = [i \in 1..MAX_LIGHT_COUNT |-> Uninit]
    /\ _camera = [transform |-> 0, fovY |-> 0, zNear |-> 0, zFar |-> 0]
    /\ issued = [mesh |-> {}, meshInstance |-> {}, pointLight |-> {},
                 texture |-> {nextId(EmptyOwner)}, material |-> {}]
    /\ calls = 0
    /\ ret = Ret("windowInit", 0, 0)

\* RenderingDevice::init creates the fences signaled and never assigns
\* _width, _height or _resized
InitFrame ==
    /\ _frame = 0
    /\ _imageIndex = -1
    /\ _resized \in BOOLEAN
    /\ _size \in Sizes \cup {Indeterminate}
    \* the window opens at the first of the sizes
    /\ window = 1
    /\ fences = [s \in Slots |-> TRUE]
    /\ cmdState = [s \in Slots |-> "initial"]
    /\ semaphores = [s \in Slots |-> FALSE]
    /\ pending = {}
    /\ swapchain = [extent |-> window, rebound |-> FALSE]
    /\ frameLog = <<>>
    /\ cpu = "ready"
    /\ fatal = FALSE
    /\ cycles = 0

InitUpload ==
    /\ image = NoImage
    /\ upload = [staging |-> 0, oneShot |-> 0, queue |-> <<>>, dst |-> 0, sent |-> 0,
                 op |-> "none", steps |-> <<>>]

\* the uniform buffers are created without contents, the command buffers
\* have recorded nothing
InitDraw ==
    /\ uniforms = [s \in Slots |-> [viewPosition |-> -1, lightCount |-> -1, writes |-> 0]]
    /\ bound = [s \in Slots |-> NoObjects]

Init == InitServer /\ InitFrame /\ InitUpload /\ InitDraw /\ InitScene /\ InitLoader

\* The server and upload calls neither read nor write _resized and the stored
\* size, so for the runs that never draw one of the values these unset members
\* may hold stands for all of them.
InitNoFrames == Init /\ _resized = FALSE /\ _size = Indeterminate

(* ---------------------------- specifications -------------------------- *)

Handles == 0..(MaxHandle + 1)
LightHandles == 0..(MaxLights + 1)

\* the client makes one more call, at most `max` of them in a run
Budget(max) == calls < max /\ calls' = calls + 1

NextLights ==
    \/ UNCHANGED calls /\ PointLightCreate(MaxLights)
    \/ Budget(MaxEdits) /\ \E h \in LightHandles, v \in Vals : PointLightSetPosition(h, v)
    \/ Budget(MaxEdits) /\ \E h \in LightHandles, v \in Vals : PointLightSetRange(h, v)
    \/ Budget(MaxEdits) /\ \E h \in LightHandles, v \in Vals : PointLightSetColor(h, v)
    \/ Budget(MaxEdits) /\ \E h \in LightHandles, v \in Vals : PointLightSetIntensity(h, v)
    \/ Budget(MaxEdits) /\ \E h \in LightHandles : PointLightFree(h)

SpecLights == InitNoFrames /\ [][NextLights]_vars

NextServer ==
    \/ Budget(MaxCalls) /\ \E v \in Vals : CameraSetTransform(v)
    \/ Budget(MaxCalls) /\ \E v \in Vals : CameraSetFovY(v)
    \/ Budget(MaxCalls) /\ \E v \in Vals : CameraSetZNear(v)
    \/ Budget(MaxCalls) /\ \E v \in Vals : CameraSetZFar(v)
    \/ Budget(MaxCalls) /\ MeshCreate(MaxHandle)
    \/ Budget(MaxCalls) /\ \E h \in Handles, n \in IndexCounts, m \in Handles :
                              MeshAddPrimitive(h, n, m)
    \/ Budget(MaxCalls) /\ \E h \in Handles : MeshFree(h)
    \/ Budget(MaxCalls) /\ MeshInstanceCreate(MaxHandle)
    \/ Budget(MaxCalls) /\ \E h \in Handles, m \in Handles : MeshInstanceSetMesh(h, m)
    \/ Budget(MaxCalls) /\ \E h \in Handles, v \in Vals : MeshInstanceSetTransform(h, v)
    \/ Budget(MaxCalls) /\ \E h \in Handles : MeshInstanceFree(h)
    \/ Budget(MaxCalls) /\ PointLightCreate(MaxHandle)
    \/ Budget(MaxCalls) /\ \E h \in Handles, v \in Vals : PointLightSetPosition(h, v)
    \/ Budget(MaxCalls) /\ \E h \in Handles, v \in Vals : PointLightSetRange(h, v)
    \/ Budget(MaxCalls) /\ \E h \in Handles, v \in Vals : PointLightSetColor(h, v)
    \/ Budget(MaxCalls) /\ \E h \in Handles, v \in Vals : PointLightSetIntensity(h, v)
    \/ Budget(MaxCalls) /\ \E h \in Handles : PointLightFree(h)
    \/ Budget(MaxCalls) /\ \E i \in Images : TextureCreate(i, MaxHandle)
    \/ Budget(MaxCalls) /\ \E h \in Handles : TextureFree(h)
    \/ Budget(MaxCalls) /\ \E h \in Handles : MaterialCreate(h, MaxHandle)
    \/ Budget(MaxCalls) /\ \E h \in Handles : MaterialFree(h)

SpecServer == InitNoFrames /\ [][NextServer]_vars

\* the mesh calls alone, in longer runs
NextMeshes ==
    \/ Budget(MaxMeshCalls) /\ MeshCreate(MaxHandle)
    \/ Budget(MaxMeshCalls) /\ MaterialCreate(NULL_HANDLE, 1)
    \/ Budget(MaxMeshCalls) /\ \E h \in Handles, n \in IndexCounts, m \in Handles :
                                  MeshAddPrimitive(h, n, m)
    \/ Budget(MaxMeshCalls) /\ \E h \in Handles : MeshFree(h)

SpecMeshes == InitNoFrames /\ [][NextMeshes]_vars

\* the device's upload operations, one at a time
NextUpload ==
    \/ Budget(MaxUploads) /\ \E w \in Extents, h \in Extents : ImageCreate(w, h)
    \/ Budget(MaxUploads) /\ \E o \in Layouts, n \in Layouts : TransitionImageLayout(o, n)
    \/ Budget(MaxUploads) /\ BufferCopyToImage
    \/ Budget(MaxUploads) /\ GenerateMipmaps
    \/ Budget(MaxUploads) /\ \E v \in Vals : BufferSend(v)
    \/ GpuExecute
    \/ SingleTimeCommandsDone

SpecUpload == InitNoFrames /\ [][NextUpload]_vars

\* textures are created one after the other
NextTexture ==
    \/ Budget(MaxUploads) /\ \E w \in Extents, h \in Extents : TextureCreateBegin(w, h)
    \/ TextureCreateCopy
    \/ TextureCreateMipmaps
    \/ TextureCreateReturn
    \/ GpuExecute

SpecTexture == InitNoFrames /\ [][NextTexture]_vars

\* a scene is loaded and cleared, in any order
NextScene ==
    \/ Budget(MaxSceneCalls) /\ \E input \in LoaderScenes : SceneLoad(input)
    \/ SceneLoadTexture
    \/ SceneLoadMaterial
    \/ SceneLoadMesh
    \/ SceneLoadPrimitive
    \/ SceneLoadMeshInstance
    \/ SceneLoadSetMesh
    \/ SceneLoadSetTransform
    \/ SceneLoadPointLight
    \/ SceneLoadPointLightSet
    \/ SceneLoadDirectionalLight
    \/ SceneLoadReturn
    \/ Budget(MaxSceneCalls) /\ SceneClear
    \/ SceneClearFree
    \/ SceneClearReturn

SpecScene == InitNoFrames /\ [][NextScene]_vars

\* meshes are loaded one after the other
NextLoadMesh ==
    \/ \E mesh \in GltfMeshes :
          \E memory \in [1..Len(mesh) -> Unwritten] : LoadMeshBegin(mesh, memory)
    \/ LoadMeshPrimitive
    \/ LoadMeshReturn

SpecLoadMesh == InitNoFrames /\ [][NextLoadMesh]_vars

\* a client call, made while no draw() is under way
ClientCall == Budget(MaxDrawCalls) /\ _imageIndex = -1

\* meshes and mesh instances are built, then frames are drawn
NextDraw ==
    \/ ClientCall /\ MeshCreate(MaxHandle)
    \/ ClientCall /\ MaterialCreate(NULL_HANDLE, 1)
    \/ ClientCall /\ \E h \in Handles, n \in IndexCounts :
                                  MeshAddPrimitive(h, n, 1)
    \/ ClientCall /\ \E h \in Handles : MeshFree(h)
    \/ ClientCall /\ MeshInstanceCreate(MaxHandle)
    \/ ClientCall /\ \E h \in Handles, m \in Handles : MeshInstanceSetMesh(h, m)
    \/ cycles < MaxDraws /\ _imageIndex = -1 /\ DrawEnter
    \/ \E result \in AcquireResults, index \in ImageIndices : DrawBeginRun(result, index)
    \/ \E err \in PresentResults : Draw(err)

SpecDraw == Init /\ [][NextDraw]_vars

\* a call that uploads through the one-shot path returns from
\* graphicsQueue.waitIdle(), so no frame is unfinished when it returns
QueueDrained == pending = {}

RenderCall == Budget(MaxRenderCalls) /\ _imageIndex = -1

\* a scene is built and changed between frames that the GPU runs on its own
NextRender ==
    \/ RenderCall /\ MeshCreate(MaxHandle)
    \/ RenderCall /\ MaterialCreate(NULL_HANDLE, 1)
    \/ RenderCall /\ QueueDrained /\ \E h \in Handles : MeshAddPrimitive(h, 3, 1)
    \/ RenderCall /\ \E h \in Handles : MeshFree(h)
    \/ RenderCall /\ MeshInstanceCreate(1)
    \/ RenderCall /\ \E h \in Handles, m \in Handles : MeshInstanceSetMesh(h, m)
    \/ RenderCall /\ \E h \in Handles : TextureFree(h)
    \/ RenderCall /\ BufferSend(1)
    \/ GpuExecute
    \/ QueueDrained /\ SingleTimeCommandsDone
    \/ cycles < MaxFrames /\ _imageIndex = -1 /\ DrawEnter
    \/ \E index \in ImageIndices : DrawBeginRun("success", index)
    \/ Draw("success")
    \/ \E sub \in pending : GpuComplete(sub)

SpecRender == InitNoFrames /\ [][NextRender]_vars

\* point lights are created and freed between frames
NextLitDraw ==
    \/ UNCHANGED calls /\ _imageIndex = -1 /\ QueueDrained /\ PointLightCreate(MaxLights)
    \/ Budget(MaxEdits) /\ _imageIndex = -1 /\ QueueDrained
           /\ \E h \in LightHandles : PointLightFree(h)
    \/ cycles < MaxDraws /\ _imageIndex = -1 /\ DrawEnter
    \/ \E index \in ImageIndices : DrawBeginRun("success", index)
    \/ Draw("success")
    \/ \E sub \in pending : GpuComplete(sub)

SpecLitDraw == InitNoFrames /\ [][NextLitDraw]_vars

NextFrame ==
    \/ cycles < MaxCycles /\ DrawBeginEnter
    \/ \E result \in AcquireResults, index \in ImageIndices : DrawBeginRun(result, index)
    \/ \E err \in PresentResults : DrawEnd(err)
    \/ \E dims \in Sizes : WindowResize(dims)
    \/ \E sub \in pending : GpuComplete(sub)

SpecFrame == Init /\ [][NextFrame]_vars

\* drawBegin and drawEnd are called in turn, by a GPU that finishes every
\* submission it can run and with a waitForFences that returns once the fence
\* is signaled
NextAlternate ==
    \/ cycles < MaxCycles /\ _imageIndex = -1 /\ DrawBeginEnter
    \/ \E result \in AcquireResults, index \in ImageIndices : DrawBeginRun(result, index)
    \/ _imageIndex # -1 /\ \E err \in PresentResults : DrawEnd(err)
    \/ \E dims \in Sizes : WindowResize(dims)
    \/ \E sub \in pending : GpuComplete(sub)

SpecAlternate ==
    /\ Init /\ [][NextAlternate]_vars
    /\ WF_vars(\E sub \in pending : GpuComplete(sub))
    /\ WF_vars(\E result \in AcquireResults, index \in ImageIndices :
                   DrawBeginRun(result, index))

(* ------------------------------ properties --------------------------- *)

\* C1: in every registry has(h) is true exactly for the handles that a
\* *Create returned and no *Free has taken since; so it is true right after
\* the insert that returned h and false right after remove(h).
RegistryRoundTrip ==
    /\ ids(_meshes) = issued.mesh
    /\ ids(_meshInstances) = issued.meshInstance
    /\ ids(_pointLights) = issued.pointLight
    /\ ids(_textures) = issued.texture
    /\ ids(_materials) = issued.material

\* handle 1 was inserted and removed, handle 2 inserted and still live
RoundTripSeen ==
    /\ ret.op = "meshInstanceFree"
    /\ _meshInstances.last = 2
    /\ ~has(_meshInstances, 1) /\ has(_meshInstances, 2)

CreatedIn(op) ==
    CASE op = "meshCreate" -> _meshes
      [] op = "meshInstanceCreate" -> _meshInstances
      [] op = "pointLightCreate" -> _pointLights
      [] op = "textureCreate" -> _textures
      [] op = "materialCreate" -> _materials
      [] OTHER -> EmptyOwner

\* C2: the handle a *Create returns is none of the handles live in that
\* registry at the call, and no registry ever holds a handle twice.
HandleUniqueness ==
    [][/\ ret'.res # NULL_HANDLE => ret'.res \notin ids(CreatedIn(ret'.op))
       /\ \A owner \in {_meshes', _meshInstances', _pointLights', _textures',
                        _materials'} : Cardinality(ids(owner)) = size(owner)]_vars

\* a mesh was created while another mesh was live
InsertBesideLive ==
    ret.op = "meshCreate" /\ ids(_meshes) = {ret.res - 1, ret.res}

\* a *Set* / *Free / meshAddPrimitive / meshInstanceSetMesh call one of whose
\* handle arguments is not live in its registry
InvalidHandleCall ==
    \/ /\ ret'.op = "meshAddPrimitive"
       /\ \E h \in Handles, n \in IndexCounts, m \in Handles :
            (~has(_meshes, h) \/ ~has(_materials, m)) /\ MeshAddPrimitive(h, n, m)
    \/ /\ ret'.op = "meshFree"
       /\ \E h \in Handles : ~has(_meshes, h) /\ MeshFree(h)
    \/ /\ ret'.op = "meshInstanceSetMesh"
       /\ \E h \in Handles, m \in Handles :
            (~has(_meshInstances, h) \/ ~has(_meshes, m)) /\ MeshInstanceSetMesh(h, m)
    \/ /\ ret'.op = "meshInstanceSetTransform"
       /\ \E h \in Handles, v \in Vals :
            ~has(_meshInstances, h) /\ MeshInstanceSetTransform(h, v)
    \/ /\ ret'.op = "meshInstanceFree"
       /\ \E h \in Handles : ~has(_meshInstances, h) /\ MeshInstanceFree(h)
    \/ /\ ret'.op = "pointLightSetPosition"
       /\ \E h \in Handles, v \in Vals :
            ~has(_pointLights, h) /\ PointLightSetPosition(h, v)
    \/ /\ ret'.op = "pointLightSetRange"
       /\ \E h \in Handles, v \in Vals :
            ~has(_pointLights, h) /\ PointLightSetRange(h, v)
    \/ /\ ret'.op = "pointLightSetColor"
       /\ \E h \in Handles, v \in Vals :
            ~has(_pointLights, h) /\ PointLightSetColor(h, v)
    \/ /\ ret'.op = "pointLightSetIntensity"
       /\ \E h \in Handles, v \in Vals :
            ~has(_pointLights, h) /\ PointLightSetIntensity(h, v)
    \/ /\ ret'.op = "pointLightFree"
       /\ \E h \in Handles : ~has(_pointLights, h) /\ PointLightFree(h)
    \/ /\ ret'.op = "textureFree"
       /\ \E h \in Handles : ~has(_textures, h) /\ TextureFree(h)
    \/ /\ ret'.op = "materialFree"
       /\ \E h \in Handles : ~has(_materials, h) /\ MaterialFree(h)

\* C3: a call with a handle that is not live leaves the five registries, the
\* camera and the light buffer as they were and raises no fatal error.
InvalidHandleSafety ==
    [][InvalidHandleCall =>
          /\ UNCHANGED <<regVars, _camera, lightBuffer>>
          /\ ~fatal']_vars

\* meshInstanceSetMesh returned early on an instance that exists: the mesh
\* handle was the invalid one
InvalidCallSeen ==
    /\ ret.op = "meshInstanceSetMesh"
    /\ size(_meshInstances) = 1 /\ size(_meshes) = 1
    /\ \A i \in DOMAIN _meshInstances.map : _meshInstances.map[i].val.mesh = 0

DrawEndNeedsDrawBegin ==
    [][\A err \in PresentResults :
          (_imageIndex = -1 /\ DrawEnd(err)) =>
             /\ fatal'
             /\ UNCHANGED <<pending, frameLog, cmdState, swapchain, _frame, _resized,
                            _imageIndex, fences, semaphores>>]_vars

\* drawEnd was called right after a completed frame and raised the error
DrawEndFatalSeen == fatal /\ ret.op = "drawEnd" /\ cycles = 1

\* position of the first entry `op` in the log of the current frame, 0 if none
Pos(op) ==
    IF \E i \in DOMAIN frameLog : frameLog[i].op = op
    THEN CHOOSE i \in DOMAIN frameLog :
            frameLog[i].op = op /\ \A j \in 1..(i - 1) : frameLog[j].op # op
    ELSE 0

Count(op) == Cardinality({i \in DOMAIN frameLog : frameLog[i].op = op})

\* C6: within a frame the acquire comes before recording begins, recording
\* ends before the submit, the submit comes before the present, each happens
\* once, and the image presented is the one acquired.
FrameOrder ==
    /\ \A op \in {"acquireNextImage", "cmdBegin", "cmdEnd", "submit", "present"} :
          Count(op) <= 1
    /\ Pos("cmdBegin") > 0 => 0 < Pos("acquireNextImage")
                              /\ Pos("acquireNextImage") < Pos("cmdBegin")
    /\ Pos("cmdEnd") > 0 => 0 < Pos("cmdBegin") /\ Pos("cmdBegin") < Pos("cmdEnd")
    /\ Pos("submit") > 0 => 0 < Pos("cmdEnd") /\ Pos("cmdEnd") < Pos("submit")
    /\ Pos("present") > 0 =>
          /\ 0 < Pos("submit") /\ Pos("submit") < Pos("present")
          /\ frameLog[Pos("present")].image = frameLog[Pos("acquireNextImage")].image

\* a frame ran from acquire to present
FramePresented == Pos("present") > 0 /\ cycles = 2

\* C7: a drawEnd that succeeds clears _imageIndex and moves _frame to the
\* other slot, so after k complete frames _frame = k mod FRAMES_IN_FLIGHT.
SlotAlternates ==
    /\ _frame = cycles % FRAMES_IN_FLIGHT
    /\ (ret.op = "drawEnd" /\ ~fatal) => _imageIndex = -1

\* three frames are complete and the fourth will use slot 1
ThreeFramesDone == cycles = 3 /\ _frame = 1 /\ ret.op = "drawEnd" /\ ~fatal

\* C8: with more than 8 lights live the light buffer holds exactly the first
\* 8 lights of the registry, in registry order.
LightCap ==
    size(_pointLights) > MAX_LIGHT_COUNT =>
        \A i \in 1..MAX_LIGHT_COUNT : lightBuffer[i] = values(_pointLights)[i]

\* nine lights are live, the eighth was changed and the ninth is left out
NineLights ==
    /\ size(_pointLights) = 9
    /\ lightBuffer[8].intensity = 1
    /\ values(_pointLights)[9].range = 1

Min(a, b) == IF a < b THEN a ELSE b

\* C9: after every point-light call the first min(n, 8) entries of the light
\* buffer are the first min(n, 8) lights of the registry.
LightBufferInSync ==
    \A i \in 1..Min(size(_pointLights), MAX_LIGHT_COUNT) :
        lightBuffer[i] = values(_pointLights)[i]

\* a light was freed in front of a changed one, which moved up in the buffer
FreeUploaded ==
    /\ ret.op = "pointLightFree" /\ ret.devCalls = 1
    /\ size(_pointLights) >= 1
    /\ lightBuffer[1].color = 1

\* C10: textureCreate on a null image or on one that is not RGBA8 returns
\* the null handle, inserts no texture and makes no device call.
TextureFormatPrecondition ==
    [][\A pImage \in Images :
          ((pImage = NullImage \/ pImage.format # "RGBA8")
              /\ TextureCreate(pImage, MaxHandle)) =>
             /\ ret'.res = NULL_HANDLE
             /\ ret'.devCalls = 0
             /\ _textures' = _textures
             /\ gpu' = gpu]_vars

\* a textureCreate was refused: only the fallback texture is registered
TextureRefused ==
    /\ ret.op = "textureCreate" /\ ret.res = NULL_HANDLE /\ ret.devCalls = 0
    /\ ids(_textures) = {_whiteTexture}

WhiteTexture == deviceTextureCreate(InitGpu).tex

\* C12: materialCreate with a texture handle that is not live inserts exactly
\* one material, returns its handle, and binds the fallback white texture
\* created at windowInit.
FallbackAlwaysBound ==
    [][\A h \in Handles :
          (~has(_textures, h) /\ MaterialCreate(h, MaxHandle)) =>
             /\ ids(_materials') = ids(_materials) \cup {ret'.res}
             /\ ret'.res \notin ids(_materials)
             /\ has(_textures, _whiteTexture)
             /\ get(_textures, _whiteTexture) = WhiteTexture
             /\ \E s \in gpu' .sets :
                   /\ s.id = get(_materials', ret'.res).albedoSet
                   /\ s.imageView = WhiteTexture.imageView
                   /\ s.sampler = WhiteTexture.sampler]_vars

\* the buffers of the primitives of a mesh
buffersOf(m) ==
    UNION {{m.primitives[i].vertexBuffer, m.primitives[i].indexBuffer} :
              i \in DOMAIN m.primitives}

primitiveCount == LET v == values(_meshes)
                      Sum[i \in 0..Len(v)] ==
                          IF i = 0 THEN 0 ELSE Sum[i - 1] + Len(v[i].primitives)
                  IN Sum[Len(v)]

\* C13: the buffers alive besides the device's own are exactly the vertex
\* and index buffers of the primitives of the live meshes, two per primitive,
\* none destroyed twice; meshFree of a live mesh removes it and destroys two
\* buffers per primitive, meshFree of any other handle destroys nothing.
MeshBuffersOwned ==
    [][/\ gpu'.buffers \ InitGpu.buffers =
             UNION {buffersOf(values(_meshes')[i]) : i \in DOMAIN values(_meshes')}
       /\ Cardinality(gpu'.buffers \ InitGpu.buffers) = 2 * primitiveCount'
       /\ ~gpu'.badDestroy
       /\ \A h \in Handles :
             (ret'.op = "meshFree" /\ MeshFree(h)) =>
                IF has(_meshes, h)
                THEN /\ ~has(_meshes', h)
                     /\ gpu'.buffers = gpu.buffers \ buffersOf(get(_meshes, h))
                     /\ ret'.devCalls = 2 * Len(get(_meshes, h).primitives)
                ELSE gpu' = gpu /\ ret'.devCalls = 0]_vars

\* a mesh of two primitives was freed while another mesh keeps its primitive
TwoPrimitivesFreed ==
    /\ ret.op = "meshFree" /\ ret.devCalls = 4
    /\ size(_meshes) = 1
    /\ Cardinality(gpu.buffers \ InitGpu.buffers) = 2

\* C14: the descriptor sets allocated for materials are exactly the sets of
\* the live materials: materialFree releases the set of the material it
\* removes.
MaterialSetsReleased ==
    /\ {s.id : s \in gpu.sets} =
          {values(_materials)[i].albedoSet : i \in DOMAIN values(_materials)}
    /\ Cardinality(gpu.sets) = size(_materials)

\* C15: textureFree of a live texture removes it and destroys its image, its
\* image view and its sampler, each of them alive until then; textureFree of
\* a handle that is not live destroys nothing.
TextureFreeDestroys ==
    [][\A h \in Handles :
          (ret'.op = "textureFree" /\ TextureFree(h)) =>
             IF has(_textures, h)
             THEN LET t == get(_textures, h)
                  IN /\ ~has(_textures', h)
                     /\ t.image \in gpu.images /\ gpu'.images = gpu.images \ {t.image}
                     /\ t.imageView \in gpu.views /\ gpu'.views = gpu.views \ {t.imageView}
                     /\ t.sampler \in gpu.samplers
                     /\ gpu'.samplers = gpu.samplers \ {t.sampler}
                     /\ ~gpu'.badDestroy
                     /\ ret'.devCalls = 3
             ELSE gpu' = gpu /\ _textures' = _textures /\ ret'.devCalls = 0]_vars

\* a texture of the client was freed; the fallback texture keeps its objects
ClientTextureFreed ==
    /\ ret.op = "textureFree" /\ ret.devCalls = 3
    /\ _textures.last = 2 /\ ids(_textures) = {_whiteTexture}
    /\ gpu.images = {WhiteTexture.image} /\ gpu.samplers = {WhiteTexture.sampler}

SupportedTransitions ==
    {<<"undefined", "transferDst">>, <<"transferDst", "shaderReadOnly">>}

\* C16: a layout transition is recorded and submitted only for the pairs
\* (undefined, transferDst) and (transferDst, shaderReadOnly); for every
\* other pair the call raises the fatal error, no barrier reaches the queue
\* and the image is left alone.
TransitionExhaustive ==
    [][\A o \in Layouts, n \in Layouts :
          (ret'.op = "_transitionImageLayout" /\ TransitionImageLayout(o, n)) =>
             IF <<o, n>> \in SupportedTransitions
             THEN /\ ~fatal'
                  /\ upload'.queue =
                        Append(upload.queue, <<Barrier(0, image.mipLevels, o, n)>>)
             ELSE /\ fatal'
                  /\ upload'.queue = upload.queue
                  /\ image' = image]_vars

\* an unsupported transition was requested of an image that had been taken
\* to transferDst, and nothing was submitted
TransitionRefused ==
    /\ fatal /\ ret.op = "_transitionImageLayout"
    /\ upload.queue = <<>>
    /\ image # NoImage /\ image.layouts[1] = "transferDst"

\* C17: when the GPU runs the commands of _generateMipmaps on an image whose
\* levels are all in transferDst, every level ends in shaderReadOnly: each
\* level but the last through transferSrc, the last one directly; no command
\* names a layout the level is not in.
MipmapsEndShaderReadOnly ==
    [][(/\ upload.op = "_generateMipmaps" /\ upload.queue # <<>>
        /\ \A l \in DOMAIN image.layouts : image.layouts[l] = "transferDst"
        /\ GpuExecute) =>
           /\ \A l \in DOMAIN image.layouts : image'.layouts[l] = "shaderReadOnly"
           /\ image'.mismatch = image.mismatch
           /\ \A l \in 1..(image.mipLevels - 1) :
                 image'.passed[l] =
                    image.passed[l] \o <<"transferSrc", "shaderReadOnly">>
           /\ image'.passed[image.mipLevels] =
                 image.passed[image.mipLevels] \o <<"shaderReadOnly">>]_vars

\* the whole upload of a 1024 x 512 image ran: 11 levels, all readable
MipmapsGenerated ==
    /\ image.width = 1024 /\ image.height = 512 /\ image.copied /\ ~image.mismatch
    /\ upload.op = "_generateMipmaps" /\ cpu = "ready"
    /\ Len(image.layouts) = 11
    /\ \A l \in DOMAIN image.layouts : image.layouts[l] = "shaderReadOnly"

\* C18: the image of width w and height h has L mip levels, where L is
\* floor(log2(max(w, h))) + 1, that is 2^(L-1) <= max(w, h) < 2^L; 11 for
\* 1024 x 512 and 1 for 1 x 1.
MipCountFormula ==
    image # NoImage =>
        /\ 2 ^ (image.mipLevels - 1) <= Max(image.width, image.height)
        /\ Max(image.width, image.height) < 2 ^ image.mipLevels
        /\ (image.width = 1024 /\ image.height = 512) => image.mipLevels = 11
        /\ (image.width = 1 /\ image.height = 1) => image.mipLevels = 1
        /\ Len(image.layouts) = image.mipLevels

\* a 1024 x 512 image has just been created with 11 levels
WideImageCreated ==
    /\ ret.op = "imageCreate"
    /\ image.width = 1024 /\ image.height = 512 /\ image.mipLevels = 11

\* C20: whenever the device is between two calls, no staging buffer and no
\* one-shot command buffer is outstanding, nothing submitted is unfinished,
\* and the destination buffer holds the data last sent, so a draw issued
\* then reads the uploaded data.
UploadSynchronous ==
    (cpu = "ready" /\ ~fatal) =>
        /\ upload.staging = 0
        /\ upload.oneShot = 0
        /\ upload.queue = <<>>
        /\ upload.dst = upload.sent

\* bufferSend(1) has returned and the destination holds the 1
UploadReturned ==
    /\ cpu = "ready" /\ ~fatal
    /\ upload.op = "bufferSend" /\ ret.op = "bufferSend"
    /\ upload.sent = 1 /\ upload.dst = 1

\* the indexed draw calls in the log of the frame
drawnCalls == SelectSeq(frameLog, LAMBDA e : e.op = "drawIndexed")

\* one call (indexCount, 1, 0) per primitive of the mesh of each instance from
\* the i-th on; an instance whose mesh handle is not live has no primitives
RECURSIVE expectedCalls(_, _)
expectedCalls(instances, i) ==
    IF i > Len(instances) THEN <<>>
    ELSE LET primitives == IF has(_meshes, instances[i].mesh)
                           THEN get(_meshes, instances[i].mesh).primitives ELSE <<>>
         IN [p \in DOMAIN primitives |-> DrawIndexed(primitives[p].indexCount, 1, 0)]
            \o expectedCalls(instances, i + 1)

\* C19: a draw() records exactly one indexed draw call per primitive of the
\* mesh of each live mesh instance, instances in registry order, primitives
\* in append order, each call (indexCount of the primitive, 1, 0).
DrawCallsPerPrimitive ==
    ret.op = "draw" => drawnCalls = expectedCalls(values(_meshInstances), 1)

\* the calls `op` that the step just taken added to the log of the frame
Added(op) ==
    Cardinality({i \in (Len(frameLog) + 1)..Len(frameLog') : frameLog'[i].op = op})

\* C21: windowResize with dimensions other than the stored ones stores them
\* and raises the resize request, which stays raised until a drawEnd; a
\* drawEnd whose present is out-of-date or suboptimal, or that finds the
\* request raised, recreates the swapchain with the stored dimensions, rebinds
\* the input attachment and clears the request; a drawEnd with a successful
\* present and no request leaves the swapchain alone; only a windowResize with
\* new dimensions raises the request again.
ResizeRecreatesOnce ==
    [][/\ \A err \in PresentResults :
            (_imageIndex # -1 /\ DrawEnd(err)) =>
               IF err # "success" \/ _resized
               THEN /\ swapchain' = [extent |-> _size, rebound |-> TRUE]
                    /\ Added("recreateSwapchain") = 1
                    /\ Added("updateInputAttachment") = 1
                    /\ ~_resized'
               ELSE /\ swapchain' = swapchain
                    /\ Added("recreateSwapchain") = 0
                    /\ Added("updateInputAttachment") = 0
                    /\ ~_resized'
       /\ \A dims \in Sizes :
            (dims # _size /\ WindowResize(dims)) => _resized' /\ _size' = dims
       /\ (_resized /\ ~_resized') => ret'.op = "drawEnd" /\ cycles' = cycles + 1
       /\ (~_resized /\ _resized') => ret'.op = "windowResize" /\ _size' # _size]_vars

\* the window was resized, a drawEnd recreated the swapchain at the new size,
\* and the drawEnd of the next frame has left it alone
ResizeHandled ==
    /\ ret.op = "drawEnd" /\ ~fatal /\ cycles >= 2
    /\ window = 2 /\ _size = 2 /\ swapchain = [extent |-> 2, rebound |-> FALSE]
    /\ ~_resized
\* draw() has been entered and has not returned
InDraw == cpu = "drawBegin" \/ _imageIndex # -1

\* C22: from the start of draw() to the return of drawEnd the one-shot path is
\* not touched: no step changes the one-shot command buffers, the staging
\* buffers or the upload queue, none is outstanding and draw() never sits in
\* the queue-idle wait.
NoOneShotInFrame ==
    [][(InDraw \/ InDraw') =>
          /\ upload' = upload
          /\ upload.oneShot = 0 /\ upload.staging = 0 /\ upload.queue = <<>>
          /\ cpu' # "waitIdle"]_vars

\* a buffer was uploaded, then a frame with a draw call was recorded and
\* submitted
FrameAfterUpload ==
    /\ ret.op = "draw" /\ upload.sent = 1 /\ upload.dst = 1
    /\ Count("drawIndexed") = 1 /\ Count("submit") = 1
\* C23: the uniform buffer of a frame slot is written only while no frame
\* submitted from that slot is unfinished on the GPU.
UniformWriteAfterFence ==
    [][\A s \in Slots :
          uniforms'[s] # uniforms[s] => \A sub \in pending : sub.slot # s]_vars
\* C24: every buffer, image view and sampler bound by the commands of a frame
\* that is still unfinished on the GPU exists.
NoInFlightDestroyed ==
    \A sub \in pending :
        /\ bound[sub.slot].buffers \subseteq gpu.buffers
        /\ bound[sub.slot].views \subseteq gpu.views
        /\ bound[sub.slot].samplers \subseteq gpu.samplers
\* C25: every drawBegin that was entered returns.
DrawBeginReturns == (cpu = "drawBegin") ~> (cpu = "ready")
\* C26: the light count draw() writes into the uniform buffer is at most 8 and
\* is the number of lights in the list uploaded to the light buffer, which is
\* the number of live lights capped at 8.
LightCountCapped ==
    [][\A s \in Slots :
          uniforms'[s] # uniforms[s] =>
             /\ uniforms'[s].lightCount <= MAX_LIGHT_COUNT
             /\ uniforms'[s].lightCount = Min(size(_pointLights), LightLoopCap)]_vars
\* C27: when draw() walks the registries (drawBegin has returned), the mesh
\* handle of every live mesh instance is live, and so is the material handle
\* of every primitive of these meshes.
DrawLooksUpLiveHandles ==
    _imageIndex # -1 =>
        \A i \in DOMAIN _meshInstances.map :
            LET mesh == _meshInstances.map[i].val.mesh
            IN /\ has(_meshes, mesh)
               /\ \A p \in DOMAIN get(_meshes, mesh).primitives :
                     has(_materials, get(_meshes, mesh).primitives[p].material)
\* C28: a drawBegin whose acquire is out-of-date recreates the swapchain with
\* the stored dimensions and rebinds the input attachment, once each; with a
\* successful or suboptimal acquire it does neither and the swapchain keeps
\* its extent.
AcquireOutOfDateRecreates ==
    [][\A result \in AcquireResults, index \in ImageIndices :
          (cpu = "drawBegin" /\ DrawBeginRun(result, index)) =>
             IF result = "outOfDate"
             THEN /\ swapchain' = [extent |-> _size, rebound |-> TRUE]
                  /\ Added("recreateSwapchain") = 1
                  /\ Added("updateInputAttachment") = 1
             ELSE /\ swapchain' = [extent |-> swapchain.extent, rebound |-> FALSE]
                  /\ Added("recreateSwapchain") = 0
                  /\ Added("updateInputAttachment") = 0]_vars

\* the window was resized and the acquire of the next drawBegin was
\* out-of-date: the swapchain has the new size
AcquireRecreated ==
    /\ ret.op = "drawBegin" /\ Count("recreateSwapchain") = 1
    /\ window = 2 /\ swapchain = [extent |-> 2, rebound |-> TRUE]
\* C29: every recreation of the swapchain, in drawBegin or in drawEnd, is
\* given the dimensions the window had at init or at the latest windowResize.
RecreateUsesWindowSize ==
    [][Added("recreateSwapchain") > 0 => swapchain'.extent = window]_vars
\* C30: the fallback white texture created by windowInit is in the texture
\* registry in every reachable state.
WhiteTextureStaysLive == has(_textures, _whiteTexture)
\* C31: meshAddPrimitive with a live mesh and a live material appends one
\* primitive to the end of that mesh: it carries the given index count, the
\* given material and two buffers that did not exist before and differ from
\* each other; the primitives the mesh had, the other meshes and their order
\* in the registry stay as they were.
PrimitiveAppended ==
    [][\A h \in Handles, n \in IndexCounts, m \in Handles :
          (/\ ret'.op = "meshAddPrimitive"
           /\ has(_meshes, h) /\ has(_materials, m)
           /\ MeshAddPrimitive(h, n, m)) =>
             LET old == get(_meshes, h).primitives
                 new == get(_meshes', h).primitives
                 added == new[Len(new)]
             IN /\ Len(new) = Len(old) + 1
                /\ SubSeq(new, 1, Len(old)) = old
                /\ added.indexCount = n /\ added.material = m
                /\ added.vertexBuffer # added.indexBuffer
                /\ {added.vertexBuffer, added.indexBuffer} \cap gpu.buffers = {}
                /\ gpu'.buffers = gpu.buffers \cup {added.vertexBuffer, added.indexBuffer}
                /\ Len(_meshes'.map) = Len(_meshes.map)
                /\ \A i \in DOMAIN _meshes.map :
                      /\ _meshes'.map[i].id = _meshes.map[i].id
                      /\ _meshes.map[i].id # h => _meshes'.map[i] = _meshes.map[i]]_vars

\* a second primitive, of 6 indices, was appended to a mesh whose first has
\* 3, while another mesh holds one primitive
SecondPrimitiveAppended ==
    /\ ret.op = "meshAddPrimitive" /\ ret.devCalls = 4
    /\ size(_meshes) = 2 /\ primitiveCount = 3
    /\ \E i \in DOMAIN _meshes.map :
          LET pr == _meshes.map[i].val.primitives
          IN Len(pr) = 2 /\ pr[1].indexCount = 3 /\ pr[2].indexCount = 6
\* C32: a *Free call changes no registry but its own: meshFree leaves the
\* mesh instances as they are, also those that name the freed mesh, and
\* textureFree leaves the materials as they are; the same for the other three.
FreeTouchesOwnRegistry ==
    [][/\ ret'.op = "meshFree" =>
             UNCHANGED <<_meshInstances, _pointLights, _textures, _materials>>
       /\ ret'.op = "textureFree" =>
             UNCHANGED <<_meshes, _meshInstances, _pointLights, _materials>>
       /\ ret'.op = "materialFree" =>
             UNCHANGED <<_meshes, _meshInstances, _pointLights, _textures>>
       /\ ret'.op = "meshInstanceFree" =>
             UNCHANGED <<_meshes, _pointLights, _textures, _materials>>
       /\ ret'.op = "pointLightFree" =>
             UNCHANGED <<_meshes, _meshInstances, _textures, _materials>>]_vars

\* a mesh was freed and a live instance still names it
InstanceLeftDangling ==
    /\ ret.op = "meshFree" /\ size(_meshes) = 0
    /\ \E i \in DOMAIN _meshInstances.map :
          /\ _meshInstances.map[i].val.mesh # NULL_HANDLE
          /\ ~has(_meshes, _meshInstances.map[i].val.mesh)
\* 2^n
RECURSIVE Pow2(_)
Pow2(n) == IF n = 0 THEN 1 ELSE 2 * Pow2(n - 1)

\* C34: among the commands of a mipmap generation for the w x h image, the
\* blit into level i reads level i-1 at (max(1, w div 2^(i-1)),
\* max(1, h div 2^(i-1))) and writes at (max(1, w div 2^i), max(1, h div 2^i));
\* there is one blit for each level 1..L-1, the last level is written at
\* 1 x 1 and no extent is 0.
MipExtents ==
    \A q \in DOMAIN upload.queue :
        upload.op = "_generateMipmaps" =>
            LET cmds == upload.queue[q]
                blits == {k \in DOMAIN cmds : cmds[k].cmd = "blit"}
            IN /\ {cmds[k].count : k \in blits} = 1..(image.mipLevels - 1)
               /\ Cardinality(blits) = image.mipLevels - 1
               /\ \A k \in blits :
                     LET i == cmds[k].count
                     IN /\ cmds[k].base = i - 1
                        /\ cmds[k].srcExtent = <<Max(1, image.width \div Pow2(i - 1)),
                                                 Max(1, image.height \div Pow2(i - 1))>>
                        /\ cmds[k].dstExtent = <<Max(1, image.width \div Pow2(i)),
                                                 Max(1, image.height \div Pow2(i))>>
                        /\ cmds[k].dstExtent[1] > 0 /\ cmds[k].dstExtent[2] > 0
                        /\ i = image.mipLevels - 1 => cmds[k].dstExtent = <<1, 1>>

\* the mipmaps of a 1024 x 3 image are being generated: eleven levels, the
\* height is clamped from the second blit on
NarrowImageMipmaps ==
    /\ upload.op = "_generateMipmaps" /\ Len(upload.queue) = 1
    /\ image.width = 1024 /\ image.height = 3 /\ image.mipLevels = 11
\* position of `step` among the calls textureCreate has made, 0 if not made
StepPos(step) ==
    IF \E i \in DOMAIN upload.steps : upload.steps[i] = step
    THEN CHOOSE i \in DOMAIN upload.steps : upload.steps[i] = step
    ELSE 0

\* `later` is only made after `earlier`
StepAfter(earlier, later) ==
    StepPos(later) > 0 => 0 < StepPos(earlier) /\ StepPos(earlier) < StepPos(later)

\* C33: textureCreate makes its calls once each and in the order image
\* creation, staging fill, transition, buffer-to-image copy, mipmap
\* generation, view and sampler creation; the transition moves every level
\* from undefined to transfer-dst; the copy names level 0 alone and runs while
\* all levels are in transfer-dst; when the function has returned the staging
\* buffer and the one-shot command buffers are gone.
TextureCreateOrder ==
    [][/\ \A i, j \in DOMAIN upload'.steps :
             i # j => upload'.steps[i] # upload'.steps[j]
       /\ StepAfter("imageCreate", "memcpy")'
       /\ StepAfter("memcpy", "_transitionImageLayout")'
       /\ StepAfter("_transitionImageLayout", "_bufferCopyToImage")'
       /\ StepAfter("_bufferCopyToImage", "_generateMipmaps")'
       /\ StepAfter("_generateMipmaps", "imageViewCreate")'
       /\ StepAfter("_generateMipmaps", "samplerCreate")'
       /\ (upload.op = "_transitionImageLayout" /\ image' # image) =>
             /\ \A l \in DOMAIN image.layouts : image.layouts[l] = "undefined"
             /\ \A l \in DOMAIN image'.layouts : image'.layouts[l] = "transferDst"
       /\ (image'.copied /\ ~image.copied) =>
             /\ Head(upload.queue) = <<CopyBufferToImage>>
             /\ levelsOf(CopyBufferToImage) = {1}
             /\ \A l \in DOMAIN image.layouts : image.layouts[l] = "transferDst"
       /\ (cpu' = "ready" /\ cpu = "textureCreate") =>
             /\ upload'.staging = 0 /\ upload'.oneShot = 0 /\ upload'.queue = <<>>
             /\ StepPos("samplerCreate")' > 0 /\ StepPos("bufferDestroy")' > 0
             /\ image'.copied]_vars

\* textureCreate has returned for a 1024 x 512 image: copied, all eleven
\* levels shader-read-only
TextureCreated ==
    /\ ret.op = "textureCreate" /\ cpu = "ready"
    /\ image.width = 1024 /\ image.height = 512 /\ image.copied
    /\ \A l \in 1..11 : image.layouts[l] = "shaderReadOnly"
    /\ upload.staging = 0

\* every command from the k-th on names, as old or source layout, the layout
\* its levels have when it runs
RECURSIVE Conforms(_, _, _)
Conforms(img, cmds, k) ==
    \/ k > Len(cmds)
    \/ LET c == cmds[k]
       IN /\ levelsOf(c) \subseteq DOMAIN img.layouts
          /\ c.cmd = "barrier" => \A l \in levelsOf(c) : img.layouts[l] = c.oldLayout
          /\ c.cmd = "blit" => /\ img.layouts[c.base + 1] = "transferSrc"
                               /\ img.layouts[c.count + 1] = "transferDst"
          /\ c.cmd = "copyBufferToImage" => img.layouts[1] = "transferDst"
          /\ Conforms(execute(img, c), cmds, k + 1)

\* C35: every barrier, blit and copy submitted while a texture is created
\* names the layout its levels are in when it runs: level i-1 is in
\* transfer-dst when it is moved to transfer-src, level i is in transfer-dst
\* when it is blitted into, and the GPU never meets a level in another layout
\* than the one declared.
LayoutsDeclaredRight ==
    /\ ~image.mismatch
    /\ upload.queue # <<>> => Conforms(image, Head(upload.queue), 1)

\* the mipmap commands of a copied 512 x 1024 image are submitted
MipmapsSubmitted ==
    /\ cpu = "textureCreate" /\ upload.op = "_generateMipmaps" /\ Len(upload.queue) = 1
    /\ image.width = 512 /\ image.height = 1024 /\ image.copied
    /\ Len(Head(upload.queue)) = 31
\* place of a call in the dependency order; the light calls have none
FreeRank(op) ==
    CASE op = "meshInstanceFree" -> 1
      [] op = "meshFree" -> 2
      [] op = "materialFree" -> 3
      [] op = "textureFree" -> 4
      [] OTHER -> 0

\* C36: the calls Scene::clear has made are in dependency order (mesh
\* instances, then meshes, then materials, then textures), and in every state
\* of clear each live mesh instance names no mesh or a live one and each
\* primitive of a live mesh names a live material.
ClearInDependencyOrder ==
    /\ \A i, j \in DOMAIN scene.freed :
         (i < j /\ FreeRank(scene.freed[i].op) > 0 /\ FreeRank(scene.freed[j].op) > 0)
            => FreeRank(scene.freed[i].op) <= FreeRank(scene.freed[j].op)
    /\ scene.pc = "clear" =>
         /\ \A i \in DOMAIN _meshInstances.map :
              LET mesh == _meshInstances.map[i].val.mesh
              IN mesh = NULL_HANDLE \/ has(_meshes, mesh)
         /\ \A i \in DOMAIN _meshes.map :
              \A j \in DOMAIN _meshes.map[i].val.primitives :
                 has(_materials, _meshes.map[i].val.primitives[j].material)

\* clear has released the instance and the mesh of a loaded scene and is
\* about to release its materials
MeshesFreedBeforeMaterials ==
    /\ scene.pc = "clear" /\ Len(scene.freed) >= 2
    /\ scene.freed[1].op = "meshInstanceFree" /\ scene.freed[1].live
    /\ scene.freed[Len(scene.freed)].op = "meshFree"
    /\ scene.freed[Len(scene.freed)].live
    /\ scene.frees # <<>> /\ Head(scene.frees).op = "materialFree"
    /\ size(_materials) > 0

\* C37: when Scene::clear has returned none of the six vectors of the scene
\* holds a handle, and no call of clear names a handle that is not live.
SceneEmptyAfterClear ==
    /\ (scene.pc = "idle" /\ ret = Ret("Scene::clear", 1, 0)) =>
         /\ scene._meshInstances = <<>> /\ scene._pointLights = <<>>
         /\ scene._directionalLights = <<>> /\ scene._meshes = <<>>
         /\ scene._materials = <<>> /\ scene._textures = <<>>
    /\ \A i \in DOMAIN scene.freed : scene.freed[i].live

\* C38: when Scene::load has returned true, each primitive of each mesh made
\* by the call has the material the call made for its material index, and
\* each mesh instance made by the call has the mesh the call made for its
\* mesh index.
LoadUsesOwnHandles ==
    (scene.pc = "idle" /\ ret = Ret("Scene::load", 1, 0)) =>
        /\ \A k \in DOMAIN scene.input.meshes :
             LET mesh == scene.made.meshes[k]
                 sceneMesh == scene.input.meshes[k]
             IN /\ has(_meshes, mesh)
                /\ Len(get(_meshes, mesh).primitives) = Len(sceneMesh)
                /\ \A j \in DOMAIN sceneMesh :
                     get(_meshes, mesh).primitives[j].material =
                        scene.made.materials[sceneMesh[j] + 1]
        /\ \A k \in DOMAIN scene.input.meshInstances :
             LET meshInstance == scene.made.meshInstances[k]
             IN /\ has(_meshInstances, meshInstance)
                /\ get(_meshInstances, meshInstance).mesh =
                      scene.made.meshes[scene.input.meshInstances[k] + 1]
\* C39: when _loadMesh has returned, the entries of the array it has
\* assigned are exactly those at the positions 0 .. primitiveCount - 1: the
\* reported count is the number of entries filled in, and they are the first
\* ones.
PrimitiveCountIsFilled ==
    loaded.returned =>
        /\ loaded.primitiveCount = Cardinality(loaded.written)
        /\ loaded.written = 0..(loaded.primitiveCount - 1)
====
